---- MODULE Spec2Model ----
\* A model of highlight_arm_system_insn.py: the classifier of ARM system
\* instructions, the register catalogs, the resolver, the bitfield tracers and
\* the driver loop, over instruction streams supplied by the host disassembler.
\*
\* Text conventions.  A mnemonic is a sequence of characters, so that the
\* slices mnem[0:3], mnem[0:4] and the index mnem[1] are computed on it.  The
\* rendered text of an operand is a sequence of lexical tokens; the tokens
\* "#", "=", "^" and "," are the single characters the code tests for, and the
\* empty sequence is the empty string.  A comment is the sequence of the
\* string pieces the format expression puts together, <<>> when no comment.
\*
\* The script is IDAPython for IDA 7.0 (Python 2): `len(desc) / 2` on ints is
\* floor division there, as modelled by \div.
EXTENDS Integers, Sequences, FiniteSets, TLC

\* The tuple of system mnemonics, each mnemonic a sequence of characters.
\* Adjacent string literals without a separating comma are one literal in
\* Python, so the tuple holds "HINTBKPT" and "BXJRFE".
SYSTEM_INSN ==
  { <<"M", "S", "R">>,
    <<"M", "R", "S">>,
    <<"C", "P", "S", "I", "E">>,
    <<"C", "P", "S", "I", "D">>,
    <<"M", "R", "C">>,
    <<"M", "R", "C", "2">>,
    <<"M", "R", "R", "C">>,
    <<"M", "R", "R", "C", "2">>,
    <<"M", "C", "R">>,
    <<"M", "C", "R", "2">>,
    <<"M", "C", "R", "R">>,
    <<"M", "C", "R", "R", "2">>,
    <<"L", "D", "C">>,
    <<"L", "D", "C", "2">>,
    <<"S", "T", "C">>,
    <<"S", "T", "C", "2">>,
    <<"C", "D", "P">>,
    <<"C", "D", "P", "2">>,
    <<"S", "Y", "S">>,
    <<"S", "Y", "S", "L">>,
    <<"I", "C">>,
    <<"D", "C">>,
    <<"A", "T">>,
    <<"T", "L", "B", "I">>,
    <<"D", "S", "B">>,
    <<"D", "M", "B">>,
    <<"I", "S", "B">>,
    <<"C", "L", "R", "E", "X">>,
    <<"S", "R", "S">>,
    <<"V", "M", "R", "S">>,
    <<"V", "M", "S", "R">>,
    <<"D", "B", "G">>,
    <<"D", "C", "P", "S", "1">>,
    <<"D", "C", "P", "S", "2">>,
    <<"D", "C", "P", "S", "3">>,
    <<"D", "R", "P", "S">>,
    <<"Y", "I", "E", "L", "D">>,
    <<"W", "F", "E">>,
    <<"W", "F", "I">>,
    <<"S", "E", "V">>,
    <<"S", "E", "V", "L">>,
    <<"H", "I", "N", "T", "B", "K", "P", "T">>,
    <<"B", "R", "K">>,
    <<"S", "V", "C">>,
    <<"S", "W", "I">>,
    <<"S", "M", "C">>,
    <<"S", "M", "I">>,
    <<"H", "V", "C">>,
    <<"E", "N", "T", "E", "R", "X">>,
    <<"L", "E", "A", "V", "E", "X">>,
    <<"B", "X", "J", "R", "F", "E">>,
    <<"E", "R", "E", "T">>,
    <<"P", "A", "C", "D", "A">>,
    <<"P", "A", "C", "D", "Z", "A">>,
    <<"P", "A", "C", "D", "B">>,
    <<"P", "A", "C", "D", "Z", "B">>,
    <<"P", "A", "C", "G", "A">>,
    <<"P", "A", "C", "I", "A">>,
    <<"P", "A", "C", "I", "A", "1", "7", "1", "6">>,
    <<"P", "A", "C", "I", "A", "S", "P">>,
    <<"P", "A", "C", "I", "A", "Z">>,
    <<"P", "A", "C", "I", "Z", "A">>,
    <<"P", "A", "C", "I", "B">>,
    <<"P", "A", "C", "I", "B", "1", "7", "1", "6">>,
    <<"P", "A", "C", "I", "B", "S", "P">>,
    <<"P", "A", "C", "I", "B", "Z">>,
    <<"P", "A", "C", "I", "Z", "B">>,
    <<"A", "U", "T", "D", "A">>,
    <<"A", "U", "T", "D", "Z", "A">>,
    <<"A", "U", "T", "D", "B">>,
    <<"A", "U", "T", "D", "Z", "B">>,
    <<"A", "U", "T", "I", "A">>,
    <<"A", "U", "T", "I", "A", "1", "7", "1", "6">>,
    <<"A", "U", "T", "I", "A", "S", "P">>,
    <<"A", "U", "T", "I", "A", "Z">>,
    <<"A", "U", "T", "I", "Z", "A">>,
    <<"A", "U", "T", "I", "B">>,
    <<"A", "U", "T", "I", "B", "1", "7", "1", "6">>,
    <<"A", "U", "T", "I", "B", "S", "P">>,
    <<"A", "U", "T", "I", "B", "Z">>,
    <<"A", "U", "T", "I", "Z", "B">> }

\* COPROC_REGISTERS_64 as the sequence of <<key, value>> items of the dict display, in
\* source order (a later item with an equal key replaces an earlier one).
\* The strings of a key are written as operand text (letter runs, digit runs).
COPROC_REGISTERS_64 ==
  << <<<<<<"p", "15">>, 0, <<"c", "2">>>>, <<"TTBR0", "Translation Table Base Register 0">>>>,
     <<<<<<"p", "15">>, 1, <<"c", "2">>>>, <<"TTBR1", "Translation Table Base Register 1">>>>,
     <<<<<<"p", "15">>, 6, <<"c", "2">>>>, <<"VTTBR", "Virtualization Translation Table Base Register">>>>,
     <<<<<<"p", "15">>, 4, <<"c", "2">>>>, <<"HTTBR", "Hyp Translation Table Base Register">>>>,
     <<<<<<"p", "15">>, 0, <<"c", "7">>>>, <<"PAR", "Physical Address Register">>>>,
     <<<<<<"p", "15">>, 0, <<"c", "9">>>>, <<"PMCCNTR", "Performance Monitors Cycle Count Register">>>>,
     <<<<<<"p", "15">>, 0, <<"c", "14">>>>, <<"CNTPCT", "Counter-timer Physical Count register">>>>,
     <<<<<<"p", "15">>, 1, <<"c", "14">>>>, <<"CNTVCT", "Counter-timer Virtual Count register">>>>,
     <<<<<<"p", "15">>, 2, <<"c", "14">>>>, <<"CNTP_CVAL", "Counter-timer Physical Timer CompareValue register", "CNTHP_CVAL", "Counter-timer Hyp Physical CompareValue register">>>>,
     <<<<<<"p", "15">>, 3, <<"c", "14">>>>, <<"CNTV_CVAL", "Counter-timer Virtual Timer CompareValue register", "CNTHV_CVAL", "Counter-timer Virtual Timer CompareValue register (EL2)">>>>,
     <<<<<<"p", "15">>, 4, <<"c", "14">>>>, <<"CNTVOFF", "Counter-timer Virtual Offset register">>>>,
     <<<<<<"p", "15">>, 6, <<"c", "14">>>>, <<"CNTHP_CVAL", "Counter-timer Hyp Physical CompareValue register">>>>,
     <<<<<<"p", "15">>, 0, <<"c", "15">>>>, <<"CPUACTLR", "CPU Auxiliary Control Register">>>>,
     <<<<<<"p", "15">>, 1, <<"c", "15">>>>, <<"CPUECTLR", "CPU Extended Control Register">>>>,
     <<<<<<"p", "15">>, 2, <<"c", "15">>>>, <<"CPUMERRSR", "CPU Memory Error Syndrome Register">>>>,
     <<<<<<"p", "15">>, 3, <<"c", "15">>>>, <<"L2MERRSR", "L2 Memory Error Syndrome Register">>>>,
     <<<<<<"p", "15">>, 0, <<"c", "12">>>>, <<"ICC_SGI1R", "Interrupt Controller Software Generated Interrupt Group 1 Register">>>>,
     <<<<<<"p", "15">>, 1, <<"c", "12">>>>, <<"ICC_ASGI1R", "Interrupt Controller Alias Software Generated Interrupt Group 1 Register">>>>,
     <<<<<<"p", "15">>, 2, <<"c", "12">>>>, <<"ICC_SGI0R", "Interrupt Controller Software Generated Interrupt Group 0 Register">>>>,
     <<<<<<"p", "15">>, 0, <<"c", "11">>>>, <<"N/A", "Preload Engine Program New Channel operation">>>>,
     <<<<<<"p", "14">>, 0, <<"c", "1">>>>, <<"DBGDRAR", "Debug ROM Address Register">>>>,
     <<<<<<"p", "14">>, 0, <<"c", "2">>>>, <<"DBGDSAR", "Debug Self Address Register">>>> >>

\* COPROC_REGISTERS as the sequence of <<key, value>> items of the dict display, in
\* source order (a later item with an equal key replaces an earlier one).
\* The strings of a key are written as operand text (letter runs, digit runs).
COPROC_REGISTERS ==
  << <<<<<<"p", "15">>, <<"c", "0">>, 0, <<"c", "0">>, 0>>, <<"MIDR", "Main ID Register">>>>,
     <<<<<<"p", "15">>, <<"c", "0">>, 0, <<"c", "0">>, 1>>, <<"CTR", "Cache Type Register">>>>,
     <<<<<<"p", "15">>, <<"c", "0">>, 0, <<"c", "0">>, 2>>, <<"TCMTR", "TCM Type Register">>>>,
     <<<<<<"p", "15">>, <<"c", "0">>, 0, <<"c", "0">>, 3>>, <<"TLBTR", "TLB Type Register">>>>,
     <<<<<<"p", "15">>, <<"c", "0">>, 0, <<"c", "0">>, 5>>, <<"MPIDR", "Multiprocessor Affinity Register">>>>,
     <<<<<<"p", "15">>, <<"c", "0">>, 0, <<"c", "0">>, 6>>, <<"REVIDR", "Revision ID Register">>>>,
     <<<<<<"p", "15">>, <<"c", "0">>, 0, <<"c", "0">>, 4>>, <<"MIDR", "Main ID Register">>>>,
     <<<<<<"p", "15">>, <<"c", "0">>, 0, <<"c", "0">>, 7>>, <<"MIDR", "Main ID Register">>>>,
     <<<<<<"p", "15">>, <<"c", "0">>, 0, <<"c", "1">>, 0>>, <<"ID_PFR0", "Processor Feature Register 0">>>>,
     <<<<<<"p", "15">>, <<"c", "0">>, 0, <<"c", "1">>, 1>>, <<"ID_PFR1", "Processor Feature Register 1">>>>,
     <<<<<<"p", "15">>, <<"c", "0">>, 0, <<"c", "1">>, 2>>, <<"ID_DFR0", "Debug Feature Register 0">>>>,
     <<<<<<"p", "15">>, <<"c", "0">>, 0, <<"c", "1">>, 3>>, <<"ID_AFR0", "Auxiliary Feature Register 0">>>>,
     <<<<<<"p", "15">>, <<"c", "0">>, 0, <<"c", "1">>, 4>>, <<"ID_MMFR0", "Memory Model Feature Register 0">>>>,
     <<<<<<"p", "15">>, <<"c", "0">>, 0, <<"c", "1">>, 5>>, <<"ID_MMFR1", "Memory Model Feature Register 1">>>>,
     <<<<<<"p", "15">>, <<"c", "0">>, 0, <<"c", "1">>, 6>>, <<"ID_MMFR2", "Memory Model Feature Register 2">>>>,
     <<<<<<"p", "15">>, <<"c", "0">>, 0, <<"c", "1">>, 7>>, <<"ID_MMFR3", "Memory Model Feature Register 3">>>>,
     <<<<<<"p", "15">>, <<"c", "0">>, 0, <<"c", "2">>, 6>>, <<"ID_MMFR4", "Memory Model Feature Register 4">>>>,
     <<<<<<"p", "15">>, <<"c", "0">>, 0, <<"c", "2">>, 0>>, <<"ID_ISAR0", "Instruction Set Attribute Register 0">>>>,
     <<<<<<"p", "15">>, <<"c", "0">>, 0, <<"c", "2">>, 1>>, <<"ID_ISAR1", "Instruction Set Attribute Register 1">>>>,
     <<<<<<"p", "15">>, <<"c", "0">>, 0, <<"c", "2">>, 2>>, <<"ID_ISAR2", "Instruction Set Attribute Register 2">>>>,
     <<<<<<"p", "15">>, <<"c", "0">>, 0, <<"c", "2">>, 3>>, <<"ID_ISAR3", "Instruction Set Attribute Register 3">>>>,
     <<<<<<"p", "15">>, <<"c", "0">>, 0, <<"c", "2">>, 4>>, <<"ID_ISAR4", "Instruction Set Attribute Register 4">>>>,
     <<<<<<"p", "15">>, <<"c", "0">>, 0, <<"c", "2">>, 5>>, <<"ID_ISAR5", "Instruction Set Attribute Register 5">>>>,
     <<<<<<"p", "15">>, <<"c", "0">>, 0, <<"c", "2">>, 7>>, <<"ID_ISAR6", "Instruction Set Attribute Register 6">>>>,
     <<<<<<"p", "15">>, <<"c", "0">>, 1, <<"c", "0">>, 0>>, <<"CCSIDR", "Current Cache Size ID Register">>>>,
     <<<<<<"p", "15">>, <<"c", "0">>, 1, <<"c", "0">>, 2>>, <<"CCSIDR2", "Current Cache Size ID Register 2">>>>,
     <<<<<<"p", "15">>, <<"c", "0">>, 1, <<"c", "0">>, 1>>, <<"CLIDR", "Cache Level ID Register">>>>,
     <<<<<<"p", "15">>, <<"c", "0">>, 1, <<"c", "0">>, 7>>, <<"AIDR", "Auxiliary ID Register">>>>,
     <<<<<<"p", "15">>, <<"c", "0">>, 2, <<"c", "0">>, 0>>, <<"CSSELR", "Cache Size Selection Register">>>>,
     <<<<<<"p", "15">>, <<"c", "0">>, 4, <<"c", "0">>, 0>>, <<"VPIDR", "Virtualization Processor ID Register">>>>,
     <<<<<<"p", "15">>, <<"c", "0">>, 4, <<"c", "0">>, 5>>, <<"VMPIDR", "Virtualization Multiprocessor ID Register">>>>,
     <<<<<<"p", "15">>, <<"c", "1">>, 0, <<"c", "0">>, 0>>, <<"SCTLR", "System Control Register">>>>,
     <<<<<<"p", "15">>, <<"c", "1">>, 0, <<"c", "0">>, 1>>, <<"ACTLR", "Auxiliary Control Register">>>>,
     <<<<<<"p", "15">>, <<"c", "1">>, 0, <<"c", "0">>, 3>>, <<"ACTLR2", "Auxiliary Control Register 2">>>>,
     <<<<<<"p", "15">>, <<"c", "1">>, 0, <<"c", "0">>, 2>>, <<"CPACR", "Architectural Feature Access Control Register">>>>,
     <<<<<<"p", "15">>, <<"c", "1">>, 0, <<"c", "1">>, 0>>, <<"SCR", "Secure Configuration Register">>>>,
     <<<<<<"p", "15">>, <<"c", "1">>, 0, <<"c", "1">>, 1>>, <<"SDER", "Secure Debug Enable Register">>>>,
     <<<<<<"p", "15">>, <<"c", "1">>, 0, <<"c", "3">>, 1>>, <<"SDCR", "Secure Debug Control Register">>>>,
     <<<<<<"p", "15">>, <<"c", "1">>, 0, <<"c", "1">>, 2>>, <<"NSACR", "Non-Secure Access Control Register">>>>,
     <<<<<<"p", "15">>, <<"c", "1">>, 4, <<"c", "0">>, 0>>, <<"HSCTLR", "Hyp System Control Register">>>>,
     <<<<<<"p", "15">>, <<"c", "1">>, 4, <<"c", "0">>, 1>>, <<"HACTLR", "Hyp Auxiliary Control Register">>>>,
     <<<<<<"p", "15">>, <<"c", "1">>, 4, <<"c", "0">>, 3>>, <<"HACTLR2", "Hyp Auxiliary Control Register 2">>>>,
     <<<<<<"p", "15">>, <<"c", "1">>, 4, <<"c", "1">>, 0>>, <<"HCR", "Hyp Configuration Register">>>>,
     <<<<<<"p", "15">>, <<"c", "1">>, 4, <<"c", "1">>, 4>>, <<"HCR2", "Hyp Configuration Register 2">>>>,
     <<<<<<"p", "15">>, <<"c", "1">>, 4, <<"c", "1">>, 1>>, <<"HDCR", "Hyp Debug Control Register">>>>,
     <<<<<<"p", "15">>, <<"c", "1">>, 4, <<"c", "1">>, 2>>, <<"HCPTR", "Hyp Architectural Feature Trap Register">>>>,
     <<<<<<"p", "15">>, <<"c", "1">>, 4, <<"c", "1">>, 3>>, <<"HSTR", "Hyp System Trap Register">>>>,
     <<<<<<"p", "15">>, <<"c", "1">>, 4, <<"c", "1">>, 7>>, <<"HACR", "Hyp Auxiliary Configuration Register">>>>,
     <<<<<<"p", "15">>, <<"c", "2">>, 0, <<"c", "0">>, 0>>, <<"TTBR0", "Translation Table Base Register 0">>>>,
     <<<<<<"p", "15">>, <<"c", "2">>, 0, <<"c", "0">>, 1>>, <<"TTBR1", "Translation Table Base Register 1">>>>,
     <<<<<<"p", "15">>, <<"c", "2">>, 4, <<"c", "0">>, 2>>, <<"HTCR", "Hyp Translation Control Register">>>>,
     <<<<<<"p", "15">>, <<"c", "2">>, 4, <<"c", "1">>, 2>>, <<"VTCR", "Virtualization Translation Control Register">>>>,
     <<<<<<"p", "15">>, <<"c", "2">>, 0, <<"c", "0">>, 2>>, <<"TTBCR", "Translation Table Base Control Register">>>>,
     <<<<<<"p", "15">>, <<"c", "2">>, 0, <<"c", "0">>, 3>>, <<"TTBCR2", "Translation Table Base Control Register 2">>>>,
     <<<<<<"p", "15">>, <<"c", "3">>, 0, <<"c", "0">>, 0>>, <<"DACR", "Domain Access Control Register">>>>,
     <<<<<<"p", "15">>, <<"c", "5">>, 0, <<"c", "0">>, 0>>, <<"DFSR", "Data Fault Status Register">>>>,
     <<<<<<"p", "15">>, <<"c", "5">>, 0, <<"c", "0">>, 1>>, <<"IFSR", "Instruction Fault Status Register">>>>,
     <<<<<<"p", "15">>, <<"c", "5">>, 0, <<"c", "1">>, 0>>, <<"ADFSR", "Auxiliary Data Fault Status Register">>>>,
     <<<<<<"p", "15">>, <<"c", "5">>, 0, <<"c", "1">>, 1>>, <<"AIFSR", "Auxiliary Instruction Fault Status Register">>>>,
     <<<<<<"p", "15">>, <<"c", "5">>, 4, <<"c", "1">>, 0>>, <<"HADFSR", "Hyp Auxiliary Data Fault Status Register">>>>,
     <<<<<<"p", "15">>, <<"c", "5">>, 4, <<"c", "1">>, 1>>, <<"HAIFSR", "Hyp Auxiliary Instruction Fault Status Register">>>>,
     <<<<<<"p", "15">>, <<"c", "5">>, 4, <<"c", "2">>, 0>>, <<"HSR", "Hyp Syndrome Register">>>>,
     <<<<<<"p", "15">>, <<"c", "6">>, 0, <<"c", "0">>, 0>>, <<"DFAR", "Data Fault Address Register">>>>,
     <<<<<<"p", "15">>, <<"c", "6">>, 0, <<"c", "0">>, 1>>, <<"N/A", "Watchpoint Fault Address">>>>,
     <<<<<<"p", "15">>, <<"c", "6">>, 0, <<"c", "0">>, 2>>, <<"IFAR", "Instruction Fault Address Register">>>>,
     <<<<<<"p", "15">>, <<"c", "6">>, 4, <<"c", "0">>, 0>>, <<"HDFAR", "Hyp Data Fault Address Register">>>>,
     <<<<<<"p", "15">>, <<"c", "6">>, 4, <<"c", "0">>, 2>>, <<"HIFAR", "Hyp Instruction Fault Address Register">>>>,
     <<<<<<"p", "15">>, <<"c", "6">>, 4, <<"c", "0">>, 4>>, <<"HPFAR", "Hyp IPA Fault Address Register">>>>,
     <<<<<<"p", "15">>, <<"c", "7">>, 0, <<"c", "0">>, 4>>, <<"NOP", "No Operation / Wait For Interrupt">>>>,
     <<<<<<"p", "15">>, <<"c", "7">>, 0, <<"c", "1">>, 0>>, <<"ICIALLUIS", "Instruction Cache Invalidate All to PoU, Inner Shareable">>>>,
     <<<<<<"p", "15">>, <<"c", "7">>, 0, <<"c", "1">>, 6>>, <<"BPIALLIS", "Branch Predictor Invalidate All, Inner Shareable">>>>,
     <<<<<<"p", "15">>, <<"c", "7">>, 0, <<"c", "4">>, 0>>, <<"PAR", "Physical Address Register">>>>,
     <<<<<<"p", "15">>, <<"c", "7">>, 0, <<"c", "5">>, 0>>, <<"ICIALLU", "Instruction Cache Invalidate All to PoU">>>>,
     <<<<<<"p", "15">>, <<"c", "7">>, 0, <<"c", "5">>, 1>>, <<"ICIMVAU", "Instruction Cache line Invalidate by VA to PoU">>>>,
     <<<<<<"p", "15">>, <<"c", "7">>, 0, <<"c", "5">>, 2>>, <<"N/A", "Invalidate all instruction caches by set/way">>>>,
     <<<<<<"p", "15">>, <<"c", "7">>, 0, <<"c", "5">>, 4>>, <<"CP15ISB", "Instruction Synchronization Barrier System instruction">>>>,
     <<<<<<"p", "15">>, <<"c", "7">>, 0, <<"c", "5">>, 6>>, <<"BPIALL", "Branch Predictor Invalidate All">>>>,
     <<<<<<"p", "15">>, <<"c", "7">>, 0, <<"c", "5">>, 7>>, <<"BPIMVA", "Branch Predictor Invalidate by VA">>>>,
     <<<<<<"p", "15">>, <<"c", "7">>, 0, <<"c", "6">>, 0>>, <<"N/A", "Invalidate entire data cache">>>>,
     <<<<<<"p", "15">>, <<"c", "7">>, 0, <<"c", "6">>, 1>>, <<"DCIMVAC", "Data Cache line Invalidate by VA to PoC">>>>,
     <<<<<<"p", "15">>, <<"c", "7">>, 0, <<"c", "6">>, 2>>, <<"DCISW", "Data Cache line Invalidate by Set/Way">>>>,
     <<<<<<"p", "15">>, <<"c", "7">>, 0, <<"c", "7">>, 0>>, <<"N/A", "Invalidate instruction cache and data cache">>>>,
     <<<<<<"p", "15">>, <<"c", "7">>, 0, <<"c", "8">>, 0>>, <<"ATS1CPR", "Address Translate Stage 1 Current state PL1 Read">>>>,
     <<<<<<"p", "15">>, <<"c", "7">>, 0, <<"c", "8">>, 1>>, <<"ATS1CPW", "Address Translate Stage 1 Current state PL1 Write">>>>,
     <<<<<<"p", "15">>, <<"c", "7">>, 0, <<"c", "8">>, 2>>, <<"ATS1CUR", "Address Translate Stage 1 Current state Unprivileged Read">>>>,
     <<<<<<"p", "15">>, <<"c", "7">>, 0, <<"c", "8">>, 3>>, <<"ATS1CUW", "Address Translate Stage 1 Current state Unprivileged Write">>>>,
     <<<<<<"p", "15">>, <<"c", "7">>, 0, <<"c", "8">>, 4>>, <<"ATS12NSOPR", "Address Translate Stages 1 and 2 Non-secure Only PL1 Read">>>>,
     <<<<<<"p", "15">>, <<"c", "7">>, 0, <<"c", "8">>, 5>>, <<"ATS12NSOPW", "Address Translate Stages 1 and 2 Non-secure Only PL1 Write">>>>,
     <<<<<<"p", "15">>, <<"c", "7">>, 0, <<"c", "8">>, 6>>, <<"ATS12NSOUR", "Address Translate Stages 1 and 2 Non-secure Only Unprivileged Read">>>>,
     <<<<<<"p", "15">>, <<"c", "7">>, 0, <<"c", "8">>, 7>>, <<"ATS12NSOUW", "Address Translate Stages 1 and 2 Non-secure Only Unprivileged Write">>>>,
     <<<<<<"p", "15">>, <<"c", "7">>, 0, <<"c", "9">>, 0>>, <<"ATS1CPRP", "Address Translate Stage 1 Current state PL1 Read PAN">>>>,
     <<<<<<"p", "15">>, <<"c", "7">>, 0, <<"c", "9">>, 1>>, <<"ATS1CPWP", "Address Translate Stage 1 Current state PL1 Write PAN">>>>,
     <<<<<<"p", "15">>, <<"c", "7">>, 0, <<"c", "10">>, 0>>, <<"N/A", "Clean entire data cache">>>>,
     <<<<<<"p", "15">>, <<"c", "7">>, 0, <<"c", "10">>, 1>>, <<"DCCMVAC", "Data Cache line Clean by VA to PoC">>>>,
     <<<<<<"p", "15">>, <<"c", "7">>, 0, <<"c", "10">>, 2>>, <<"DCCSW", "Data Cache line Clean by Set/Way">>>>,
     <<<<<<"p", "15">>, <<"c", "7">>, 0, <<"c", "10">>, 3>>, <<"N/A", "Test and clean data cache">>>>,
     <<<<<<"p", "15">>, <<"c", "7">>, 0, <<"c", "10">>, 4>>, <<"CP15DSB", "Data Synchronization Barrier System instruction">>>>,
     <<<<<<"p", "15">>, <<"c", "7">>, 0, <<"c", "10">>, 5>>, <<"CP15DMB", "Data Memory Barrier System instruction">>>>,
     <<<<<<"p", "15">>, <<"c", "7">>, 0, <<"c", "10">>, 6>>, <<"N/A", "Read Cache Dirty Status Register">>>>,
     <<<<<<"p", "15">>, <<"c", "7">>, 0, <<"c", "11">>, 1>>, <<"DCCMVAU", "Data Cache line Clean by VA to PoU">>>>,
     <<<<<<"p", "15">>, <<"c", "7">>, 0, <<"c", "12">>, 4>>, <<"N/A", "Read Block Transfer Status Register">>>>,
     <<<<<<"p", "15">>, <<"c", "7">>, 0, <<"c", "12">>, 5>>, <<"N/A", "Stop Prefetch Range">>>>,
     <<<<<<"p", "15">>, <<"c", "7">>, 0, <<"c", "13">>, 1>>, <<"NOP", "No Operation / Prefetch Instruction Cache Line">>>>,
     <<<<<<"p", "15">>, <<"c", "7">>, 0, <<"c", "14">>, 0>>, <<"N/A", "Clean and invalidate entire data cache">>>>,
     <<<<<<"p", "15">>, <<"c", "7">>, 0, <<"c", "14">>, 1>>, <<"DCCIMVAC", "Data Cache line Clean and Invalidate by VA to PoC">>>>,
     <<<<<<"p", "15">>, <<"c", "7">>, 0, <<"c", "14">>, 2>>, <<"DCCISW", "Data Cache line Clean and Invalidate by Set/Way">>>>,
     <<<<<<"p", "15">>, <<"c", "7">>, 0, <<"c", "14">>, 3>>, <<"N/A", "Test, clean, and invalidate data cache">>>>,
     <<<<<<"p", "15">>, <<"c", "7">>, 4, <<"c", "8">>, 0>>, <<"ATS1HR", "Address Translate Stage 1 Hyp mode Read">>>>,
     <<<<<<"p", "15">>, <<"c", "7">>, 4, <<"c", "8">>, 1>>, <<"ATS1HW", "Stage 1 Hyp mode write">>>>,
     <<<<<<"p", "15">>, <<"c", "8">>, 0, <<"c", "3">>, 0>>, <<"TLBIALLIS", "TLB Invalidate All, Inner Shareable">>>>,
     <<<<<<"p", "15">>, <<"c", "8">>, 0, <<"c", "3">>, 1>>, <<"TLBIMVAIS", "TLB Invalidate by VA, Inner Shareable">>>>,
     <<<<<<"p", "15">>, <<"c", "8">>, 0, <<"c", "3">>, 2>>, <<"TLBIASIDIS", "TLB Invalidate by ASID match, Inner Shareable">>>>,
     <<<<<<"p", "15">>, <<"c", "8">>, 0, <<"c", "3">>, 3>>, <<"TLBIMVAAIS", "TLB Invalidate by VA, All ASID, Inner Shareable">>>>,
     <<<<<<"p", "15">>, <<"c", "8">>, 0, <<"c", "3">>, 5>>, <<"TLBIMVALIS", "TLB Invalidate by VA, Last level, Inner Shareable">>>>,
     <<<<<<"p", "15">>, <<"c", "8">>, 0, <<"c", "3">>, 7>>, <<"TLBIMVAALIS", "TLB Invalidate by VA, All ASID, Last level, Inner Shareable">>>>,
     <<<<<<"p", "15">>, <<"c", "8">>, 0, <<"c", "5">>, 0>>, <<"ITLBIALL", "Instruction TLB Invalidate All">>>>,
     <<<<<<"p", "15">>, <<"c", "8">>, 0, <<"c", "5">>, 1>>, <<"ITLBIMVA", "Instruction TLB Invalidate by VA">>>>,
     <<<<<<"p", "15">>, <<"c", "8">>, 0, <<"c", "5">>, 2>>, <<"ITLBIASID", "Instruction TLB Invalidate by ASID match">>>>,
     <<<<<<"p", "15">>, <<"c", "8">>, 0, <<"c", "6">>, 0>>, <<"DTLBIALL", "Data TLB Invalidate All">>>>,
     <<<<<<"p", "15">>, <<"c", "8">>, 0, <<"c", "6">>, 1>>, <<"DTLBIMVA", "Data TLB Invalidate by VA">>>>,
     <<<<<<"p", "15">>, <<"c", "8">>, 0, <<"c", "6">>, 2>>, <<"DTLBIASID", "Data TLB Invalidate by ASID match">>>>,
     <<<<<<"p", "15">>, <<"c", "8">>, 0, <<"c", "7">>, 0>>, <<"TLBIALL", "TLB Invalidate All">>>>,
     <<<<<<"p", "15">>, <<"c", "8">>, 0, <<"c", "7">>, 1>>, <<"TLBIMVA", "TLB Invalidate by VA">>>>,
     <<<<<<"p", "15">>, <<"c", "8">>, 0, <<"c", "7">>, 2>>, <<"TLBIASID", "TLB Invalidate by ASID match">>>>,
     <<<<<<"p", "15">>, <<"c", "8">>, 0, <<"c", "7">>, 3>>, <<"TLBIMVAA", "TLB Invalidate by VA, All ASID">>>>,
     <<<<<<"p", "15">>, <<"c", "8">>, 0, <<"c", "7">>, 5>>, <<"TLBIMVAL", "TLB Invalidate by VA, Last level">>>>,
     <<<<<<"p", "15">>, <<"c", "8">>, 0, <<"c", "7">>, 7>>, <<"TLBIMVAAL", "TLB Invalidate by VA, All ASID, Last level">>>>,
     <<<<<<"p", "15">>, <<"c", "8">>, 4, <<"c", "0">>, 1>>, <<"TLBIIPAS2IS", "TLB Invalidate by Intermediate Physical Address, Stage 2, Inner Shareable">>>>,
     <<<<<<"p", "15">>, <<"c", "8">>, 4, <<"c", "0">>, 5>>, <<"TLBIIPAS2LIS", "TLB Invalidate by Intermediate Physical Address, Stage 2, Last level, Inner Shareable">>>>,
     <<<<<<"p", "15">>, <<"c", "8">>, 4, <<"c", "3">>, 0>>, <<"TLBIALLHIS", "TLB Invalidate All, Hyp mode, Inner Shareable">>>>,
     <<<<<<"p", "15">>, <<"c", "8">>, 4, <<"c", "3">>, 1>>, <<"TLBIMVAHIS", "TLB Invalidate by VA, Hyp mode, Inner Shareable">>>>,
     <<<<<<"p", "15">>, <<"c", "8">>, 4, <<"c", "3">>, 4>>, <<"TLBIALLNSNHIS", "TLB Invalidate All, Non-Secure Non-Hyp, Inner Shareable">>>>,
     <<<<<<"p", "15">>, <<"c", "8">>, 4, <<"c", "3">>, 5>>, <<"TLBIMVALHIS", "TLB Invalidate by VA, Last level, Hyp mode, Inner Shareable">>>>,
     <<<<<<"p", "15">>, <<"c", "8">>, 4, <<"c", "4">>, 1>>, <<"TLBIIPAS2", "TLB Invalidate by Intermediate Physical Address, Stage 2">>>>,
     <<<<<<"p", "15">>, <<"c", "8">>, 4, <<"c", "4">>, 5>>, <<"TLBIIPAS2L", "TLB Invalidate by Intermediate Physical Address, Stage 2, Last level">>>>,
     <<<<<<"p", "15">>, <<"c", "8">>, 4, <<"c", "7">>, 0>>, <<"TLBIALLH", "TLB Invalidate All, Hyp mode">>>>,
     <<<<<<"p", "15">>, <<"c", "8">>, 4, <<"c", "7">>, 1>>, <<"TLBIMVAH", "TLB Invalidate by VA, Hyp mode">>>>,
     <<<<<<"p", "15">>, <<"c", "8">>, 4, <<"c", "7">>, 4>>, <<"TLBIALLNSNH", "TLB Invalidate All, Non-Secure Non-Hyp">>>>,
     <<<<<<"p", "15">>, <<"c", "8">>, 4, <<"c", "7">>, 5>>, <<"TLBIMVALH", "TLB Invalidate by VA, Last level, Hyp mode">>>>,
     <<<<<<"p", "15">>, <<"c", "9">>, 0, <<"c", "0">>, 0>>, <<"N/A", "Data Cache Lockdown">>>>,
     <<<<<<"p", "15">>, <<"c", "9">>, 0, <<"c", "0">>, 1>>, <<"N/A", "Instruction Cache Lockdown">>>>,
     <<<<<<"p", "15">>, <<"c", "9">>, 0, <<"c", "1">>, 0>>, <<"N/A", "Data TCM Region">>>>,
     <<<<<<"p", "15">>, <<"c", "9">>, 0, <<"c", "1">>, 1>>, <<"N/A", "Instruction TCM Region">>>>,
     <<<<<<"p", "15">>, <<"c", "9">>, 1, <<"c", "0">>, 2>>, <<"L2CTLR", "L2 Control Register">>>>,
     <<<<<<"p", "15">>, <<"c", "9">>, 1, <<"c", "0">>, 3>>, <<"L2ECTLR", "L2 Extended Control Register">>>>,
     <<<<<<"p", "15">>, <<"c", "9">>, 0, <<"c", "12">>, 0>>, <<"PMCR", "Performance Monitors Control Register">>>>,
     <<<<<<"p", "15">>, <<"c", "9">>, 0, <<"c", "12">>, 1>>, <<"PMCNTENSET", "Performance Monitor Count Enable Set Register">>>>,
     <<<<<<"p", "15">>, <<"c", "9">>, 0, <<"c", "12">>, 2>>, <<"PMCNTENCLR", "Performance Monitor Control Enable Clear Register">>>>,
     <<<<<<"p", "15">>, <<"c", "9">>, 0, <<"c", "12">>, 3>>, <<"PMOVSR", "Performance Monitors Overflow Flag Status Register">>>>,
     <<<<<<"p", "15">>, <<"c", "9">>, 0, <<"c", "12">>, 4>>, <<"PMSWINC", "Performance Monitors Software Increment register">>>>,
     <<<<<<"p", "15">>, <<"c", "9">>, 0, <<"c", "12">>, 5>>, <<"PMSELR", "Performance Monitors Event Counter Selection Register">>>>,
     <<<<<<"p", "15">>, <<"c", "9">>, 0, <<"c", "12">>, 6>>, <<"PMCEID0", "Performance Monitors Common Event Identification register 0">>>>,
     <<<<<<"p", "15">>, <<"c", "9">>, 0, <<"c", "12">>, 7>>, <<"PMCEID1", "Performance Monitors Common Event Identification register 1">>>>,
     <<<<<<"p", "15">>, <<"c", "9">>, 0, <<"c", "13">>, 0>>, <<"PMCCNTR", "Performance Monitors Cycle Count Register">>>>,
     <<<<<<"p", "15">>, <<"c", "9">>, 0, <<"c", "13">>, 1>>, <<"PMXEVTYPER", "Performance Monitors Selected Event Type Register">>>>,
     <<<<<<"p", "15">>, <<"c", "9">>, 0, <<"c", "13">>, 2>>, <<"PMXEVCNTR", "Performance Monitors Selected Event Count Register">>>>,
     <<<<<<"p", "15">>, <<"c", "9">>, 0, <<"c", "14">>, 0>>, <<"PMUSERENR", "Performance Monitors User Enable Register">>>>,
     <<<<<<"p", "15">>, <<"c", "9">>, 0, <<"c", "14">>, 1>>, <<"PMINTENSET", "Performance Monitors Interrupt Enable Set register">>>>,
     <<<<<<"p", "15">>, <<"c", "9">>, 0, <<"c", "14">>, 2>>, <<"PMINTENCLR", "Performance Monitors Interrupt Enable Clear register">>>>,
     <<<<<<"p", "15">>, <<"c", "9">>, 0, <<"c", "14">>, 3>>, <<"PMOVSSET", "Performance Monitors Overflow Flag Status Set register">>>>,
     <<<<<<"p", "15">>, <<"c", "9">>, 0, <<"c", "14">>, 4>>, <<"PMCEID2", "Performance Monitors Common Event Identification register 2">>>>,
     <<<<<<"p", "15">>, <<"c", "9">>, 0, <<"c", "14">>, 5>>, <<"PMCEID3", "Performance Monitors Common Event Identification register 3">>>>,
     <<<<<<"p", "15">>, <<"c", "14">>, 0, <<"c", "8">>, 0>>, <<"PMEVCNTR0", "Performance Monitors Event Count Register 0">>>>,
     <<<<<<"p", "15">>, <<"c", "14">>, 0, <<"c", "8">>, 1>>, <<"PMEVCNTR1", "Performance Monitors Event Count Register 1">>>>,
     <<<<<<"p", "15">>, <<"c", "14">>, 0, <<"c", "8">>, 2>>, <<"PMEVCNTR2", "Performance Monitors Event Count Register 2">>>>,
     <<<<<<"p", "15">>, <<"c", "14">>, 0, <<"c", "8">>, 3>>, <<"PMEVCNTR3", "Performance Monitors Event Count Register 3">>>>,
     <<<<<<"p", "15">>, <<"c", "14">>, 0, <<"c", "8">>, 4>>, <<"PMEVCNTR4", "Performance Monitors Event Count Register 4">>>>,
     <<<<<<"p", "15">>, <<"c", "14">>, 0, <<"c", "8">>, 5>>, <<"PMEVCNTR5", "Performance Monitors Event Count Register 5">>>>,
     <<<<<<"p", "15">>, <<"c", "14">>, 0, <<"c", "8">>, 6>>, <<"PMEVCNTR6", "Performance Monitors Event Count Register 6">>>>,
     <<<<<<"p", "15">>, <<"c", "14">>, 0, <<"c", "8">>, 7>>, <<"PMEVCNTR7", "Performance Monitors Event Count Register 7">>>>,
     <<<<<<"p", "15">>, <<"c", "14">>, 0, <<"c", "9">>, 0>>, <<"PMEVCNTR8", "Performance Monitors Event Count Register 8">>>>,
     <<<<<<"p", "15">>, <<"c", "14">>, 0, <<"c", "9">>, 1>>, <<"PMEVCNTR9", "Performance Monitors Event Count Register 9">>>>,
     <<<<<<"p", "15">>, <<"c", "14">>, 0, <<"c", "9">>, 2>>, <<"PMEVCNTR10", "Performance Monitors Event Count Register 10">>>>,
     <<<<<<"p", "15">>, <<"c", "14">>, 0, <<"c", "9">>, 3>>, <<"PMEVCNTR11", "Performance Monitors Event Count Register 11">>>>,
     <<<<<<"p", "15">>, <<"c", "14">>, 0, <<"c", "9">>, 4>>, <<"PMEVCNTR12", "Performance Monitors Event Count Register 12">>>>,
     <<<<<<"p", "15">>, <<"c", "14">>, 0, <<"c", "9">>, 5>>, <<"PMEVCNTR13", "Performance Monitors Event Count Register 13">>>>,
     <<<<<<"p", "15">>, <<"c", "14">>, 0, <<"c", "9">>, 6>>, <<"PMEVCNTR14", "Performance Monitors Event Count Register 14">>>>,
     <<<<<<"p", "15">>, <<"c", "14">>, 0, <<"c", "9">>, 7>>, <<"PMEVCNTR15", "Performance Monitors Event Count Register 15">>>>,
     <<<<<<"p", "15">>, <<"c", "14">>, 0, <<"c", "10">>, 0>>, <<"PMEVCNTR16", "Performance Monitors Event Count Register 16">>>>,
     <<<<<<"p", "15">>, <<"c", "14">>, 0, <<"c", "10">>, 1>>, <<"PMEVCNTR17", "Performance Monitors Event Count Register 17">>>>,
     <<<<<<"p", "15">>, <<"c", "14">>, 0, <<"c", "10">>, 2>>, <<"PMEVCNTR18", "Performance Monitors Event Count Register 18">>>>,
     <<<<<<"p", "15">>, <<"c", "14">>, 0, <<"c", "10">>, 3>>, <<"PMEVCNTR19", "Performance Monitors Event Count Register 19">>>>,
     <<<<<<"p", "15">>, <<"c", "14">>, 0, <<"c", "10">>, 4>>, <<"PMEVCNTR20", "Performance Monitors Event Count Register 20">>>>,
     <<<<<<"p", "15">>, <<"c", "14">>, 0, <<"c", "10">>, 5>>, <<"PMEVCNTR21", "Performance Monitors Event Count Register 21">>>>,
     <<<<<<"p", "15">>, <<"c", "14">>, 0, <<"c", "10">>, 6>>, <<"PMEVCNTR22", "Performance Monitors Event Count Register 22">>>>,
     <<<<<<"p", "15">>, <<"c", "14">>, 0, <<"c", "10">>, 7>>, <<"PMEVCNTR23", "Performance Monitors Event Count Register 23">>>>,
     <<<<<<"p", "15">>, <<"c", "14">>, 0, <<"c", "11">>, 0>>, <<"PMEVCNTR24", "Performance Monitors Event Count Register 24">>>>,
     <<<<<<"p", "15">>, <<"c", "14">>, 0, <<"c", "11">>, 1>>, <<"PMEVCNTR25", "Performance Monitors Event Count Register 25">>>>,
     <<<<<<"p", "15">>, <<"c", "14">>, 0, <<"c", "11">>, 2>>, <<"PMEVCNTR26", "Performance Monitors Event Count Register 26">>>>,
     <<<<<<"p", "15">>, <<"c", "14">>, 0, <<"c", "11">>, 3>>, <<"PMEVCNTR27", "Performance Monitors Event Count Register 27">>>>,
     <<<<<<"p", "15">>, <<"c", "14">>, 0, <<"c", "11">>, 4>>, <<"PMEVCNTR28", "Performance Monitors Event Count Register 28">>>>,
     <<<<<<"p", "15">>, <<"c", "14">>, 0, <<"c", "11">>, 5>>, <<"PMEVCNTR29", "Performance Monitors Event Count Register 29">>>>,
     <<<<<<"p", "15">>, <<"c", "14">>, 0, <<"c", "11">>, 6>>, <<"PMEVCNTR30", "Performance Monitors Event Count Register 30">>>>,
     <<<<<<"p", "15">>, <<"c", "14">>, 0, <<"c", "12">>, 0>>, <<"PMEVTYPER0", "Performance Monitors Event Type Register 0">>>>,
     <<<<<<"p", "15">>, <<"c", "14">>, 0, <<"c", "12">>, 1>>, <<"PMEVTYPER1", "Performance Monitors Event Type Register 1">>>>,
     <<<<<<"p", "15">>, <<"c", "14">>, 0, <<"c", "12">>, 2>>, <<"PMEVTYPER2", "Performance Monitors Event Type Register 2">>>>,
     <<<<<<"p", "15">>, <<"c", "14">>, 0, <<"c", "12">>, 3>>, <<"PMEVTYPER3", "Performance Monitors Event Type Register 3">>>>,
     <<<<<<"p", "15">>, <<"c", "14">>, 0, <<"c", "12">>, 4>>, <<"PMEVTYPER4", "Performance Monitors Event Type Register 4">>>>,
     <<<<<<"p", "15">>, <<"c", "14">>, 0, <<"c", "12">>, 5>>, <<"PMEVTYPER5", "Performance Monitors Event Type Register 5">>>>,
     <<<<<<"p", "15">>, <<"c", "14">>, 0, <<"c", "12">>, 6>>, <<"PMEVTYPER6", "Performance Monitors Event Type Register 6">>>>,
     <<<<<<"p", "15">>, <<"c", "14">>, 0, <<"c", "12">>, 7>>, <<"PMEVTYPER7", "Performance Monitors Event Type Register 7">>>>,
     <<<<<<"p", "15">>, <<"c", "14">>, 0, <<"c", "13">>, 0>>, <<"PMEVTYPER8", "Performance Monitors Event Type Register 8">>>>,
     <<<<<<"p", "15">>, <<"c", "14">>, 0, <<"c", "13">>, 1>>, <<"PMEVTYPER9", "Performance Monitors Event Type Register 9">>>>,
     <<<<<<"p", "15">>, <<"c", "14">>, 0, <<"c", "13">>, 2>>, <<"PMEVTYPER10", "Performance Monitors Event Type Register 10">>>>,
     <<<<<<"p", "15">>, <<"c", "14">>, 0, <<"c", "13">>, 3>>, <<"PMEVTYPER11", "Performance Monitors Event Type Register 11">>>>,
     <<<<<<"p", "15">>, <<"c", "14">>, 0, <<"c", "13">>, 4>>, <<"PMEVTYPER12", "Performance Monitors Event Type Register 12">>>>,
     <<<<<<"p", "15">>, <<"c", "14">>, 0, <<"c", "13">>, 5>>, <<"PMEVTYPER13", "Performance Monitors Event Type Register 13">>>>,
     <<<<<<"p", "15">>, <<"c", "14">>, 0, <<"c", "13">>, 6>>, <<"PMEVTYPER14", "Performance Monitors Event Type Register 14">>>>,
     <<<<<<"p", "15">>, <<"c", "14">>, 0, <<"c", "13">>, 7>>, <<"PMEVTYPER15", "Performance Monitors Event Type Register 15">>>>,
     <<<<<<"p", "15">>, <<"c", "14">>, 0, <<"c", "14">>, 0>>, <<"PMEVTYPER16", "Performance Monitors Event Type Register 16">>>>,
     <<<<<<"p", "15">>, <<"c", "14">>, 0, <<"c", "14">>, 1>>, <<"PMEVTYPER17", "Performance Monitors Event Type Register 17">>>>,
     <<<<<<"p", "15">>, <<"c", "14">>, 0, <<"c", "14">>, 2>>, <<"PMEVTYPER18", "Performance Monitors Event Type Register 18">>>>,
     <<<<<<"p", "15">>, <<"c", "14">>, 0, <<"c", "14">>, 3>>, <<"PMEVTYPER19", "Performance Monitors Event Type Register 19">>>>,
     <<<<<<"p", "15">>, <<"c", "14">>, 0, <<"c", "14">>, 4>>, <<"PMEVTYPER20", "Performance Monitors Event Type Register 20">>>>,
     <<<<<<"p", "15">>, <<"c", "14">>, 0, <<"c", "14">>, 5>>, <<"PMEVTYPER21", "Performance Monitors Event Type Register 21">>>>,
     <<<<<<"p", "15">>, <<"c", "14">>, 0, <<"c", "14">>, 6>>, <<"PMEVTYPER22", "Performance Monitors Event Type Register 22">>>>,
     <<<<<<"p", "15">>, <<"c", "14">>, 0, <<"c", "14">>, 7>>, <<"PMEVTYPER23", "Performance Monitors Event Type Register 23">>>>,
     <<<<<<"p", "15">>, <<"c", "14">>, 0, <<"c", "15">>, 0>>, <<"PMEVTYPER24", "Performance Monitors Event Type Register 24">>>>,
     <<<<<<"p", "15">>, <<"c", "14">>, 0, <<"c", "15">>, 1>>, <<"PMEVTYPER25", "Performance Monitors Event Type Register 25">>>>,
     <<<<<<"p", "15">>, <<"c", "14">>, 0, <<"c", "15">>, 2>>, <<"PMEVTYPER26", "Performance Monitors Event Type Register 26">>>>,
     <<<<<<"p", "15">>, <<"c", "14">>, 0, <<"c", "15">>, 3>>, <<"PMEVTYPER27", "Performance Monitors Event Type Register 27">>>>,
     <<<<<<"p", "15">>, <<"c", "14">>, 0, <<"c", "15">>, 4>>, <<"PMEVTYPER28", "Performance Monitors Event Type Register 28">>>>,
     <<<<<<"p", "15">>, <<"c", "14">>, 0, <<"c", "15">>, 5>>, <<"PMEVTYPER29", "Performance Monitors Event Type Register 29">>>>,
     <<<<<<"p", "15">>, <<"c", "14">>, 0, <<"c", "15">>, 6>>, <<"PMEVTYPER30", "Performance Monitors Event Type Register 30">>>>,
     <<<<<<"p", "15">>, <<"c", "14">>, 0, <<"c", "15">>, 7>>, <<"PMCCFILTR", "Performance Monitors Cycle Count Filter Register">>>>,
     <<<<<<"p", "15">>, <<"c", "10">>, 0, <<"c", "0">>, 0>>, <<"N/A", "TLB Lockdown">>>>,
     <<<<<<"p", "15">>, <<"c", "10">>, 0, <<"c", "2">>, 0>>, <<"MAIR0", "Memory Attribute Indirection Register 0", "PRRR", "Primary Region Remap Register">>>>,
     <<<<<<"p", "15">>, <<"c", "10">>, 0, <<"c", "2">>, 1>>, <<"MAIR1", "Memory Attribute Indirection Register 1", "NMRR", "Normal Memory Remap Register">>>>,
     <<<<<<"p", "15">>, <<"c", "10">>, 0, <<"c", "3">>, 0>>, <<"AMAIR0", "Auxiliary Memory Attribute Indirection Register 0">>>>,
     <<<<<<"p", "15">>, <<"c", "10">>, 0, <<"c", "3">>, 1>>, <<"AMAIR1", "Auxiliary Memory Attribute Indirection Register 1">>>>,
     <<<<<<"p", "15">>, <<"c", "10">>, 4, <<"c", "2">>, 0>>, <<"HMAIR0", "Hyp Memory Attribute Indirection Register 0">>>>,
     <<<<<<"p", "15">>, <<"c", "10">>, 4, <<"c", "2">>, 1>>, <<"HMAIR1", "Hyp Memory Attribute Indirection Register 1">>>>,
     <<<<<<"p", "15">>, <<"c", "10">>, 4, <<"c", "3">>, 0>>, <<"HAMAIR0", "Hyp Auxiliary Memory Attribute Indirection Register 0">>>>,
     <<<<<<"p", "15">>, <<"c", "10">>, 4, <<"c", "3">>, 1>>, <<"HAMAIR1", "Hyp Auxiliary Memory Attribute Indirection Register 1">>>>,
     <<<<<<"p", "15">>, <<"c", "11">>, 0, <<"c", "0">>, 0>>, <<"N/A", "DMA Identification and Status (Present)">>>>,
     <<<<<<"p", "15">>, <<"c", "11">>, 0, <<"c", "0">>, 1>>, <<"N/A", "DMA Identification and Status (Queued)">>>>,
     <<<<<<"p", "15">>, <<"c", "11">>, 0, <<"c", "0">>, 2>>, <<"N/A", "DMA Identification and Status (Running)">>>>,
     <<<<<<"p", "15">>, <<"c", "11">>, 0, <<"c", "0">>, 3>>, <<"N/A", "DMA Identification and Status (Interrupting)">>>>,
     <<<<<<"p", "15">>, <<"c", "11">>, 0, <<"c", "1">>, 0>>, <<"N/A", "DMA User Accessibility">>>>,
     <<<<<<"p", "15">>, <<"c", "11">>, 0, <<"c", "2">>, 0>>, <<"N/A", "DMA Channel Number">>>>,
     <<<<<<"p", "15">>, <<"c", "11">>, 0, <<"c", "3">>, 0>>, <<"N/A", "DMA Enable (Stop)">>>>,
     <<<<<<"p", "15">>, <<"c", "11">>, 0, <<"c", "3">>, 1>>, <<"N/A", "DMA Enable (Start)">>>>,
     <<<<<<"p", "15">>, <<"c", "11">>, 0, <<"c", "3">>, 2>>, <<"N/A", "DMA Enable (Clear)">>>>,
     <<<<<<"p", "15">>, <<"c", "11">>, 0, <<"c", "4">>, 0>>, <<"N/A", "DMA Control">>>>,
     <<<<<<"p", "15">>, <<"c", "11">>, 0, <<"c", "5">>, 0>>, <<"N/A", "DMA Internal Start Address">>>>,
     <<<<<<"p", "15">>, <<"c", "11">>, 0, <<"c", "6">>, 0>>, <<"N/A", "DMA External Start Address">>>>,
     <<<<<<"p", "15">>, <<"c", "11">>, 0, <<"c", "7">>, 0>>, <<"N/A", "DMA Internal End Address">>>>,
     <<<<<<"p", "15">>, <<"c", "11">>, 0, <<"c", "8">>, 0>>, <<"N/A", "DMA Channel Status">>>>,
     <<<<<<"p", "15">>, <<"c", "11">>, 0, <<"c", "15">>, 0>>, <<"N/A", "DMA Context ID">>>>,
     <<<<<<"p", "15">>, <<"c", "12">>, 0, <<"c", "0">>, 0>>, <<"VBAR", "Vector Base Address Register">>>>,
     <<<<<<"p", "15">>, <<"c", "12">>, 0, <<"c", "0">>, 1>>, <<"RVBAR", "Reset Vector Base Address Register", "MVBAR", "Monitor Vector Base Address Register">>>>,
     <<<<<<"p", "15">>, <<"c", "12">>, 0, <<"c", "0">>, 2>>, <<"RMR", "Reset Management Register">>>>,
     <<<<<<"p", "15">>, <<"c", "12">>, 4, <<"c", "0">>, 2>>, <<"HRMR", "Hyp Reset Management Register">>>>,
     <<<<<<"p", "15">>, <<"c", "12">>, 0, <<"c", "1">>, 0>>, <<"ISR", "Interrupt Status Register">>>>,
     <<<<<<"p", "15">>, <<"c", "12">>, 4, <<"c", "0">>, 0>>, <<"HVBAR", "Hyp Vector Base Address Register">>>>,
     <<<<<<"p", "15">>, <<"c", "13">>, 0, <<"c", "0">>, 0>>, <<"FCSEIDR", "FCSE Process ID register">>>>,
     <<<<<<"p", "15">>, <<"c", "13">>, 0, <<"c", "0">>, 1>>, <<"CONTEXTIDR", "Context ID Register">>>>,
     <<<<<<"p", "15">>, <<"c", "13">>, 0, <<"c", "0">>, 2>>, <<"TPIDRURW", "PL0 Read/Write Software Thread ID Register">>>>,
     <<<<<<"p", "15">>, <<"c", "13">>, 0, <<"c", "0">>, 3>>, <<"TPIDRURO", "PL0 Read-Only Software Thread ID Register">>>>,
     <<<<<<"p", "15">>, <<"c", "13">>, 0, <<"c", "0">>, 4>>, <<"TPIDRPRW", "PL1 Software Thread ID Register">>>>,
     <<<<<<"p", "15">>, <<"c", "13">>, 4, <<"c", "0">>, 2>>, <<"HTPIDR", "Hyp Software Thread ID Register">>>>,
     <<<<<<"p", "15">>, <<"c", "14">>, 0, <<"c", "0">>, 0>>, <<"CNTFRQ", "Counter-timer Frequency register">>>>,
     <<<<<<"p", "15">>, <<"c", "14">>, 0, <<"c", "1">>, 0>>, <<"CNTKCTL", "Counter-timer Kernel Control register">>>>,
     <<<<<<"p", "15">>, <<"c", "14">>, 0, <<"c", "2">>, 0>>, <<"CNTP_TVAL", "Counter-timer Physical Timer TimerValue register", "CNTHP_TVAL", "Counter-timer Hyp Physical Timer TimerValue register">>>>,
     <<<<<<"p", "15">>, <<"c", "14">>, 0, <<"c", "2">>, 1>>, <<"CNTP_CTL", "Counter-timer Physical Timer Control register", "CNTHP_CTL", "Counter-timer Hyp Physical Timer Control register">>>>,
     <<<<<<"p", "15">>, <<"c", "14">>, 0, <<"c", "3">>, 0>>, <<"CNTV_TVAL", "Counter-timer Virtual Timer TimerValue register", "CNTHV_TVAL", "Counter-timer Virtual Timer TimerValue register (EL2)">>>>,
     <<<<<<"p", "15">>, <<"c", "14">>, 0, <<"c", "3">>, 1>>, <<"CNTV_CTL", "Counter-timer Virtual Timer Control register", "CNTHV_CTL", "Counter-timer Virtual Timer Control register (EL2)">>>>,
     <<<<<<"p", "15">>, <<"c", "14">>, 4, <<"c", "1">>, 0>>, <<"CNTHCTL", "Counter-timer Hyp Control register">>>>,
     <<<<<<"p", "15">>, <<"c", "14">>, 4, <<"c", "2">>, 0>>, <<"CNTHP_TVAL", "Counter-timer Hyp Physical Timer TimerValue register">>>>,
     <<<<<<"p", "15">>, <<"c", "14">>, 4, <<"c", "2">>, 1>>, <<"CNTHP_CTL", "Counter-timer Hyp Physical Timer Control register">>>>,
     <<<<<<"p", "15">>, <<"c", "4">>, 0, <<"c", "6">>, 0>>, <<"ICC_PMR", "Interrupt Controller Interrupt Priority Mask Register", "ICV_PMR", "Interrupt Controller Virtual Interrupt Priority Mask Register">>>>,
     <<<<<<"p", "15">>, <<"c", "12">>, 0, <<"c", "8">>, 0>>, <<"ICC_IAR0", "Interrupt Controller Interrupt Acknowledge Register 0", "ICV_IAR0", "Interrupt Controller Virtual Interrupt Acknowledge Register 0">>>>,
     <<<<<<"p", "15">>, <<"c", "12">>, 0, <<"c", "8">>, 1>>, <<"ICC_EOIR0", "Interrupt Controller End Of Interrupt Register 0", "ICV_EOIR0", "Interrupt Controller Virtual End Of Interrupt Register 0">>>>,
     <<<<<<"p", "15">>, <<"c", "12">>, 0, <<"c", "8">>, 2>>, <<"ICC_HPPIR0", "Interrupt Controller Highest Priority Pending Interrupt Register 0", "ICV_HPPIR0", "Interrupt Controller Virtual Highest Priority Pending Interrupt Register 0">>>>,
     <<<<<<"p", "15">>, <<"c", "12">>, 0, <<"c", "8">>, 3>>, <<"ICC_BPR0", "Interrupt Controller Binary Point Register 0", "ICV_BPR0", "Interrupt Controller Virtual Binary Point Register 0">>>>,
     <<<<<<"p", "15">>, <<"c", "12">>, 0, <<"c", "8">>, 4>>, <<"ICC_AP0R0", "Interrupt Controller Active Priorities Group 0 Register 0", "ICV_AP0R0", "Interrupt Controller Virtual Active Priorities Group 0 Register 0">>>>,
     <<<<<<"p", "15">>, <<"c", "12">>, 0, <<"c", "8">>, 5>>, <<"ICC_AP0R1", "Interrupt Controller Active Priorities Group 0 Register 1", "ICV_AP0R1", "Interrupt Controller Virtual Active Priorities Group 0 Register 1">>>>,
     <<<<<<"p", "15">>, <<"c", "12">>, 0, <<"c", "8">>, 6>>, <<"ICC_AP0R2", "Interrupt Controller Active Priorities Group 0 Register 2", "ICV_AP0R2", "Interrupt Controller Virtual Active Priorities Group 0 Register 2">>>>,
     <<<<<<"p", "15">>, <<"c", "12">>, 0, <<"c", "8">>, 7>>, <<"ICC_AP0R3", "Interrupt Controller Active Priorities Group 0 Register 3", "ICV_AP0R3", "Interrupt Controller Virtual Active Priorities Group 0 Register 3">>>>,
     <<<<<<"p", "15">>, <<"c", "12">>, 0, <<"c", "9">>, 0>>, <<"ICC_AP1R0", "Interrupt Controller Active Priorities Group 1 Register 0", "ICV_AP1R0", "Interrupt Controller Virtual Active Priorities Group 1 Register 0">>>>,
     <<<<<<"p", "15">>, <<"c", "12">>, 0, <<"c", "9">>, 1>>, <<"ICC_AP1R1", "Interrupt Controller Active Priorities Group 1 Register 1", "ICV_AP1R1", "Interrupt Controller Virtual Active Priorities Group 1 Register 1">>>>,
     <<<<<<"p", "15">>, <<"c", "12">>, 0, <<"c", "9">>, 2>>, <<"ICC_AP1R2", "Interrupt Controller Active Priorities Group 1 Register 2", "ICV_AP1R2", "Interrupt Controller Virtual Active Priorities Group 1 Register 2">>>>,
     <<<<<<"p", "15">>, <<"c", "12">>, 0, <<"c", "9">>, 3>>, <<"ICC_AP1R3", "Interrupt Controller Active Priorities Group 1 Register 3", "ICV_AP1R3", "Interrupt Controller Virtual Active Priorities Group 1 Register 3">>>>,
     <<<<<<"p", "15">>, <<"c", "12">>, 0, <<"c", "11">>, 1>>, <<"ICC_DIR", "Interrupt Controller Deactivate Interrupt Register", "ICV_DIR", "Interrupt Controller Deactivate Virtual Interrupt Register">>>>,
     <<<<<<"p", "15">>, <<"c", "12">>, 0, <<"c", "11">>, 3>>, <<"ICC_RPR", "Interrupt Controller Running Priority Register", "ICV_RPR", "Interrupt Controller Virtual Running Priority Register">>>>,
     <<<<<<"p", "15">>, <<"c", "12">>, 0, <<"c", "12">>, 0>>, <<"ICC_IAR1", "Interrupt Controller Interrupt Acknowledge Register 1", "ICV_IAR1", "Interrupt Controller Virtual Interrupt Acknowledge Register 1">>>>,
     <<<<<<"p", "15">>, <<"c", "12">>, 0, <<"c", "12">>, 1>>, <<"ICC_EOIR1", "Interrupt Controller End Of Interrupt Register 1", "ICV_EOIR1", "Interrupt Controller Virtual End Of Interrupt Register 1">>>>,
     <<<<<<"p", "15">>, <<"c", "12">>, 0, <<"c", "12">>, 2>>, <<"ICC_HPPIR1", "Interrupt Controller Highest Priority Pending Interrupt Register 1", "ICV_HPPIR1", "Interrupt Controller Virtual Highest Priority Pending Interrupt Register 1">>>>,
     <<<<<<"p", "15">>, <<"c", "12">>, 0, <<"c", "12">>, 3>>, <<"ICC_BPR1", "Interrupt Controller Binary Point Register 1", "ICV_BPR1", "Interrupt Controller Virtual Binary Point Register 1">>>>,
     <<<<<<"p", "15">>, <<"c", "12">>, 0, <<"c", "12">>, 4>>, <<"ICC_CTLR", "Interrupt Controller Control Register", "ICV_CTLR", "Interrupt Controller Virtual Control Register">>>>,
     <<<<<<"p", "15">>, <<"c", "12">>, 0, <<"c", "12">>, 5>>, <<"ICC_SRE", "Interrupt Controller System Register Enable register">>>>,
     <<<<<<"p", "15">>, <<"c", "12">>, 0, <<"c", "12">>, 6>>, <<"ICC_IGRPEN0", "Interrupt Controller Interrupt Group 0 Enable register", "ICV_IGRPEN0", "Interrupt Controller Virtual Interrupt Group 0 Enable register">>>>,
     <<<<<<"p", "15">>, <<"c", "12">>, 0, <<"c", "12">>, 7>>, <<"ICC_IGRPEN1", "Interrupt Controller Interrupt Group 1 Enable register", "ICV_IGRPEN1", "Interrupt Controller Virtual Interrupt Group 1 Enable register">>>>,
     <<<<<<"p", "15">>, <<"c", "12">>, 4, <<"c", "8">>, 0>>, <<"ICH_AP0R0", "Interrupt Controller Hyp Active Priorities Group 0 Register 0">>>>,
     <<<<<<"p", "15">>, <<"c", "12">>, 4, <<"c", "8">>, 1>>, <<"ICH_AP0R1", "Interrupt Controller Hyp Active Priorities Group 0 Register 1">>>>,
     <<<<<<"p", "15">>, <<"c", "12">>, 4, <<"c", "8">>, 2>>, <<"ICH_AP0R2", "Interrupt Controller Hyp Active Priorities Group 0 Register 2">>>>,
     <<<<<<"p", "15">>, <<"c", "12">>, 4, <<"c", "8">>, 3>>, <<"ICH_AP0R3", "Interrupt Controller Hyp Active Priorities Group 0 Register 3">>>>,
     <<<<<<"p", "15">>, <<"c", "12">>, 4, <<"c", "9">>, 0>>, <<"ICH_AP1R0", "Interrupt Controller Hyp Active Priorities Group 1 Register 0">>>>,
     <<<<<<"p", "15">>, <<"c", "12">>, 4, <<"c", "9">>, 1>>, <<"ICH_AP1R1", "Interrupt Controller Hyp Active Priorities Group 1 Register 1">>>>,
     <<<<<<"p", "15">>, <<"c", "12">>, 4, <<"c", "9">>, 2>>, <<"ICH_AP1R2", "Interrupt Controller Hyp Active Priorities Group 1 Register 2">>>>,
     <<<<<<"p", "15">>, <<"c", "12">>, 4, <<"c", "9">>, 3>>, <<"ICH_AP1R3", "Interrupt Controller Hyp Active Priorities Group 1 Register 3">>>>,
     <<<<<<"p", "15">>, <<"c", "12">>, 4, <<"c", "9">>, 5>>, <<"ICC_HSRE", "Interrupt Controller Hyp System Register Enable register">>>>,
     <<<<<<"p", "15">>, <<"c", "12">>, 4, <<"c", "11">>, 0>>, <<"ICH_HCR", "Interrupt Controller Hyp Control Register">>>>,
     <<<<<<"p", "15">>, <<"c", "12">>, 4, <<"c", "11">>, 1>>, <<"ICH_VTR", "Interrupt Controller VGIC Type Register">>>>,
     <<<<<<"p", "15">>, <<"c", "12">>, 4, <<"c", "11">>, 2>>, <<"ICH_MISR", "Interrupt Controller Maintenance Interrupt State Register">>>>,
     <<<<<<"p", "15">>, <<"c", "12">>, 4, <<"c", "11">>, 3>>, <<"ICH_EISR", "Interrupt Controller End of Interrupt Status Register">>>>,
     <<<<<<"p", "15">>, <<"c", "12">>, 4, <<"c", "11">>, 5>>, <<"ICH_ELRSR", "Interrupt Controller Empty List Register Status Register">>>>,
     <<<<<<"p", "15">>, <<"c", "12">>, 4, <<"c", "11">>, 7>>, <<"ICH_VMCR", "Interrupt Controller Virtual Machine Control Register">>>>,
     <<<<<<"p", "15">>, <<"c", "12">>, 4, <<"c", "12">>, 0>>, <<"ICH_LR0", "Interrupt Controller List Register 0">>>>,
     <<<<<<"p", "15">>, <<"c", "12">>, 4, <<"c", "12">>, 1>>, <<"ICH_LR1", "Interrupt Controller List Register 1">>>>,
     <<<<<<"p", "15">>, <<"c", "12">>, 4, <<"c", "12">>, 2>>, <<"ICH_LR2", "Interrupt Controller List Register 2">>>>,
     <<<<<<"p", "15">>, <<"c", "12">>, 4, <<"c", "12">>, 3>>, <<"ICH_LR3", "Interrupt Controller List Register 3">>>>,
     <<<<<<"p", "15">>, <<"c", "12">>, 4, <<"c", "12">>, 4>>, <<"ICH_LR4", "Interrupt Controller List Register 4">>>>,
     <<<<<<"p", "15">>, <<"c", "12">>, 4, <<"c", "12">>, 5>>, <<"ICH_LR5", "Interrupt Controller List Register 5">>>>,
     <<<<<<"p", "15">>, <<"c", "12">>, 4, <<"c", "12">>, 6>>, <<"ICH_LR6", "Interrupt Controller List Register 6">>>>,
     <<<<<<"p", "15">>, <<"c", "12">>, 4, <<"c", "12">>, 7>>, <<"ICH_LR7", "Interrupt Controller List Register 7">>>>,
     <<<<<<"p", "15">>, <<"c", "12">>, 4, <<"c", "13">>, 0>>, <<"ICH_LR8", "Interrupt Controller List Register 8">>>>,
     <<<<<<"p", "15">>, <<"c", "12">>, 4, <<"c", "13">>, 1>>, <<"ICH_LR9", "Interrupt Controller List Register 9">>>>,
     <<<<<<"p", "15">>, <<"c", "12">>, 4, <<"c", "13">>, 2>>, <<"ICH_LR10", "Interrupt Controller List Register 10">>>>,
     <<<<<<"p", "15">>, <<"c", "12">>, 4, <<"c", "13">>, 3>>, <<"ICH_LR11", "Interrupt Controller List Register 11">>>>,
     <<<<<<"p", "15">>, <<"c", "12">>, 4, <<"c", "13">>, 4>>, <<"ICH_LR12", "Interrupt Controller List Register 12">>>>,
     <<<<<<"p", "15">>, <<"c", "12">>, 4, <<"c", "13">>, 5>>, <<"ICH_LR13", "Interrupt Controller List Register 13">>>>,
     <<<<<<"p", "15">>, <<"c", "12">>, 4, <<"c", "13">>, 6>>, <<"ICH_LR14", "Interrupt Controller List Register 14">>>>,
     <<<<<<"p", "15">>, <<"c", "12">>, 4, <<"c", "13">>, 7>>, <<"ICH_LR15", "Interrupt Controller List Register 15">>>>,
     <<<<<<"p", "15">>, <<"c", "12">>, 4, <<"c", "14">>, 0>>, <<"ICH_LRC0", "Interrupt Controller List Register 0">>>>,
     <<<<<<"p", "15">>, <<"c", "12">>, 4, <<"c", "14">>, 1>>, <<"ICH_LRC1", "Interrupt Controller List Register 1">>>>,
     <<<<<<"p", "15">>, <<"c", "12">>, 4, <<"c", "14">>, 2>>, <<"ICH_LRC2", "Interrupt Controller List Register 2">>>>,
     <<<<<<"p", "15">>, <<"c", "12">>, 4, <<"c", "14">>, 3>>, <<"ICH_LRC3", "Interrupt Controller List Register 3">>>>,
     <<<<<<"p", "15">>, <<"c", "12">>, 4, <<"c", "14">>, 4>>, <<"ICH_LRC4", "Interrupt Controller List Register 4">>>>,
     <<<<<<"p", "15">>, <<"c", "12">>, 4, <<"c", "14">>, 5>>, <<"ICH_LRC5", "Interrupt Controller List Register 5">>>>,
     <<<<<<"p", "15">>, <<"c", "12">>, 4, <<"c", "14">>, 6>>, <<"ICH_LRC6", "Interrupt Controller List Register 6">>>>,
     <<<<<<"p", "15">>, <<"c", "12">>, 4, <<"c", "14">>, 7>>, <<"ICH_LRC7", "Interrupt Controller List Register 7">>>>,
     <<<<<<"p", "15">>, <<"c", "12">>, 4, <<"c", "15">>, 0>>, <<"ICH_LRC8", "Interrupt Controller List Register 8">>>>,
     <<<<<<"p", "15">>, <<"c", "12">>, 4, <<"c", "15">>, 1>>, <<"ICH_LRC9", "Interrupt Controller List Register 9">>>>,
     <<<<<<"p", "15">>, <<"c", "12">>, 4, <<"c", "15">>, 2>>, <<"ICH_LRC10", "Interrupt Controller List Register 10">>>>,
     <<<<<<"p", "15">>, <<"c", "12">>, 4, <<"c", "15">>, 3>>, <<"ICH_LRC11", "Interrupt Controller List Register 11">>>>,
     <<<<<<"p", "15">>, <<"c", "12">>, 4, <<"c", "15">>, 4>>, <<"ICH_LRC12", "Interrupt Controller List Register 12">>>>,
     <<<<<<"p", "15">>, <<"c", "12">>, 4, <<"c", "15">>, 5>>, <<"ICH_LRC13", "Interrupt Controller List Register 13">>>>,
     <<<<<<"p", "15">>, <<"c", "12">>, 4, <<"c", "15">>, 6>>, <<"ICH_LRC14", "Interrupt Controller List Register 14">>>>,
     <<<<<<"p", "15">>, <<"c", "12">>, 4, <<"c", "15">>, 7>>, <<"ICH_LRC15", "Interrupt Controller List Register 15">>>>,
     <<<<<<"p", "15">>, <<"c", "12">>, 6, <<"c", "12">>, 4>>, <<"ICC_MCTLR", "Interrupt Controller Monitor Control Register">>>>,
     <<<<<<"p", "15">>, <<"c", "12">>, 6, <<"c", "12">>, 5>>, <<"ICC_MSRE", "Interrupt Controller Monitor System Register Enable register">>>>,
     <<<<<<"p", "15">>, <<"c", "12">>, 6, <<"c", "12">>, 7>>, <<"ICC_MGRPEN1", "Interrupt Controller Monitor Interrupt Group 1 Enable register">>>>,
     <<<<<<"p", "15">>, <<"c", "15">>, 0, <<"c", "0">>, 0>>, <<"IL1Data0", "Instruction L1 Data n Register">>>>,
     <<<<<<"p", "15">>, <<"c", "15">>, 0, <<"c", "0">>, 1>>, <<"IL1Data1", "Instruction L1 Data n Register">>>>,
     <<<<<<"p", "15">>, <<"c", "15">>, 0, <<"c", "0">>, 2>>, <<"IL1Data2", "Instruction L1 Data n Register">>>>,
     <<<<<<"p", "15">>, <<"c", "15">>, 0, <<"c", "1">>, 0>>, <<"DL1Data0", "Data L1 Data n Register">>>>,
     <<<<<<"p", "15">>, <<"c", "15">>, 0, <<"c", "1">>, 1>>, <<"DL1Data1", "Data L1 Data n Register">>>>,
     <<<<<<"p", "15">>, <<"c", "15">>, 0, <<"c", "1">>, 2>>, <<"DL1Data2", "Data L1 Data n Register">>>>,
     <<<<<<"p", "15">>, <<"c", "15">>, 0, <<"c", "2">>, 0>>, <<"N/A", "Data Memory Remap">>>>,
     <<<<<<"p", "15">>, <<"c", "15">>, 0, <<"c", "2">>, 1>>, <<"N/A", "Instruction Memory Remap">>>>,
     <<<<<<"p", "15">>, <<"c", "15">>, 0, <<"c", "2">>, 2>>, <<"N/A", "DMA Memory Remap">>>>,
     <<<<<<"p", "15">>, <<"c", "15">>, 0, <<"c", "2">>, 3>>, <<"N/A", "Peripheral Port Memory Remap">>>>,
     <<<<<<"p", "15">>, <<"c", "15">>, 0, <<"c", "4">>, 0>>, <<"RAMINDEX", "RAM Index Register">>>>,
     <<<<<<"p", "15">>, <<"c", "15">>, 0, <<"c", "12">>, 0>>, <<"N/A", "Performance Monitor Control">>>>,
     <<<<<<"p", "15">>, <<"c", "15">>, 0, <<"c", "12">>, 1>>, <<"CCNT", "Cycle Counter">>>>,
     <<<<<<"p", "15">>, <<"c", "15">>, 0, <<"c", "12">>, 2>>, <<"PMN0", "Count 0">>>>,
     <<<<<<"p", "15">>, <<"c", "15">>, 0, <<"c", "12">>, 3>>, <<"PMN1", "Count 1">>>>,
     <<<<<<"p", "15">>, <<"c", "15">>, 1, <<"c", "0">>, 0>>, <<"L2ACTLR", "L2 Auxiliary Control Register">>>>,
     <<<<<<"p", "15">>, <<"c", "15">>, 1, <<"c", "0">>, 3>>, <<"L2FPR", "L2 Prefetch Control Register">>>>,
     <<<<<<"p", "15">>, <<"c", "15">>, 3, <<"c", "0">>, 0>>, <<"N/A", "Data Debug Cache">>>>,
     <<<<<<"p", "15">>, <<"c", "15">>, 3, <<"c", "0">>, 1>>, <<"N/A", "Instruction Debug Cache">>>>,
     <<<<<<"p", "15">>, <<"c", "15">>, 3, <<"c", "2">>, 0>>, <<"N/A", "Data Tag RAM Read Operation">>>>,
     <<<<<<"p", "15">>, <<"c", "15">>, 3, <<"c", "2">>, 1>>, <<"N/A", "Instruction Tag RAM Read Operation">>>>,
     <<<<<<"p", "15">>, <<"c", "15">>, 4, <<"c", "0">>, 0>>, <<"CBAR", "Configuration Base Address Register">>>>,
     <<<<<<"p", "15">>, <<"c", "15">>, 5, <<"c", "4">>, 0>>, <<"N/A", "Data MicroTLB Index">>>>,
     <<<<<<"p", "15">>, <<"c", "15">>, 5, <<"c", "4">>, 1>>, <<"N/A", "Instruction MicroTLB Index">>>>,
     <<<<<<"p", "15">>, <<"c", "15">>, 5, <<"c", "4">>, 2>>, <<"N/A", "Read Main TLB Entry">>>>,
     <<<<<<"p", "15">>, <<"c", "15">>, 5, <<"c", "4">>, 4>>, <<"N/A", "Write Main TLB Entry">>>>,
     <<<<<<"p", "15">>, <<"c", "15">>, 5, <<"c", "5">>, 0>>, <<"N/A", "Data MicroTLB VA">>>>,
     <<<<<<"p", "15">>, <<"c", "15">>, 5, <<"c", "5">>, 1>>, <<"N/A", "Instruction MicroTLB VA">>>>,
     <<<<<<"p", "15">>, <<"c", "15">>, 5, <<"c", "5">>, 2>>, <<"N/A", "Main TLB VA">>>>,
     <<<<<<"p", "15">>, <<"c", "15">>, 5, <<"c", "7">>, 0>>, <<"N/A", "Data MicroTLB Attribute">>>>,
     <<<<<<"p", "15">>, <<"c", "15">>, 5, <<"c", "7">>, 1>>, <<"N/A", "Instruction MicroTLB Attribute">>>>,
     <<<<<<"p", "15">>, <<"c", "15">>, 5, <<"c", "7">>, 2>>, <<"N/A", "Main TLB Attribute">>>>,
     <<<<<<"p", "15">>, <<"c", "15">>, 7, <<"c", "0">>, 0>>, <<"N/A", "Cache Debug Control">>>>,
     <<<<<<"p", "15">>, <<"c", "15">>, 7, <<"c", "1">>, 0>>, <<"N/A", "TLB Debug Control">>>>,
     <<<<<<"p", "15">>, <<"c", "11">>, 0, <<"c", "0">>, 0>>, <<"PLEIDR", "Preload Engine ID Register">>>>,
     <<<<<<"p", "15">>, <<"c", "11">>, 0, <<"c", "0">>, 2>>, <<"PLEASR", "Preload Engine Activity Status Register">>>>,
     <<<<<<"p", "15">>, <<"c", "11">>, 0, <<"c", "0">>, 4>>, <<"PLEFSR", "Preload Engine FIFO Status Register">>>>,
     <<<<<<"p", "15">>, <<"c", "11">>, 0, <<"c", "1">>, 0>>, <<"PLEUAR", "Preload Engine User Accessibility Register">>>>,
     <<<<<<"p", "15">>, <<"c", "11">>, 0, <<"c", "1">>, 1>>, <<"PLEPCR", "Preload Engine Parameters Control Register">>>>,
     <<<<<<"p", "15">>, <<"c", "11">>, 0, <<"c", "2">>, 1>>, <<"PLEFF", "Preload Engine FIFO flush operation">>>>,
     <<<<<<"p", "15">>, <<"c", "11">>, 0, <<"c", "3">>, 0>>, <<"PLEPC", "Preload Engine pause channel operation">>>>,
     <<<<<<"p", "15">>, <<"c", "11">>, 0, <<"c", "3">>, 1>>, <<"PLERC", "Preload Engine resume channel operation">>>>,
     <<<<<<"p", "15">>, <<"c", "11">>, 0, <<"c", "3">>, 2>>, <<"PLEKC", "Preload Engine kill channel operation">>>>,
     <<<<<<"p", "14">>, <<"c", "0">>, 7, <<"c", "0">>, 0>>, <<"JIDR", "Jazelle ID Register">>>>,
     <<<<<<"p", "14">>, <<"c", "1">>, 7, <<"c", "0">>, 0>>, <<"JOSCR", "Jazelle OS Control Register">>>>,
     <<<<<<"p", "14">>, <<"c", "2">>, 7, <<"c", "0">>, 0>>, <<"JMCR", "Jazelle Main Configuration Register">>>>,
     <<<<<<"p", "15">>, <<"c", "4">>, 3, <<"c", "5">>, 0>>, <<"DSPSR", "Debug Saved Program Status Register">>>>,
     <<<<<<"p", "15">>, <<"c", "4">>, 3, <<"c", "5">>, 1>>, <<"DLR", "Debug Link Register">>>>,
     <<<<<<"p", "14">>, <<"c", "0">>, 0, <<"c", "0">>, 0>>, <<"DBGDIDR", "Debug ID Register">>>>,
     <<<<<<"p", "14">>, <<"c", "0">>, 0, <<"c", "6">>, 0>>, <<"DBGWFAR", "Debug Watchpoint Fault Address Register">>>>,
     <<<<<<"p", "14">>, <<"c", "0">>, 0, <<"c", "6">>, 2>>, <<"DBGOSECCR", "Debug OS Lock Exception Catch Control Register">>>>,
     <<<<<<"p", "14">>, <<"c", "0">>, 0, <<"c", "7">>, 0>>, <<"DBGVCR", "Debug Vector Catch Register">>>>,
     <<<<<<"p", "14">>, <<"c", "0">>, 0, <<"c", "0">>, 2>>, <<"DBGDTRRXext", "Debug OS Lock Data Transfer Register, Receive, External View">>>>,
     <<<<<<"p", "14">>, <<"c", "0">>, 0, <<"c", "2">>, 0>>, <<"DBGDCCINT", "DCC Interrupt Enable Register">>>>,
     <<<<<<"p", "14">>, <<"c", "0">>, 0, <<"c", "2">>, 2>>, <<"DBGDSCRext", "Debug Status and Control Register, External View">>>>,
     <<<<<<"p", "14">>, <<"c", "0">>, 0, <<"c", "3">>, 2>>, <<"DBGDTRTXext", "Debug OS Lock Data Transfer Register, Transmit">>>>,
     <<<<<<"p", "14">>, <<"c", "0">>, 0, <<"c", "0">>, 4>>, <<"DBGBVR0", "Debug Breakpoint Value Register 0">>>>,
     <<<<<<"p", "14">>, <<"c", "0">>, 0, <<"c", "1">>, 4>>, <<"DBGBVR1", "Debug Breakpoint Value Register 1">>>>,
     <<<<<<"p", "14">>, <<"c", "0">>, 0, <<"c", "2">>, 4>>, <<"DBGBVR2", "Debug Breakpoint Value Register 2">>>>,
     <<<<<<"p", "14">>, <<"c", "0">>, 0, <<"c", "3">>, 4>>, <<"DBGBVR3", "Debug Breakpoint Value Register 3">>>>,
     <<<<<<"p", "14">>, <<"c", "0">>, 0, <<"c", "4">>, 4>>, <<"DBGBVR4", "Debug Breakpoint Value Register 4">>>>,
     <<<<<<"p", "14">>, <<"c", "0">>, 0, <<"c", "5">>, 4>>, <<"DBGBVR5", "Debug Breakpoint Value Register 5">>>>,
     <<<<<<"p", "14">>, <<"c", "0">>, 0, <<"c", "6">>, 4>>, <<"DBGBVR6", "Debug Breakpoint Value Register 6">>>>,
     <<<<<<"p", "14">>, <<"c", "0">>, 0, <<"c", "7">>, 4>>, <<"DBGBVR7", "Debug Breakpoint Value Register 7">>>>,
     <<<<<<"p", "14">>, <<"c", "0">>, 0, <<"c", "8">>, 4>>, <<"DBGBVR8", "Debug Breakpoint Value Register 8">>>>,
     <<<<<<"p", "14">>, <<"c", "0">>, 0, <<"c", "9">>, 4>>, <<"DBGBVR9", "Debug Breakpoint Value Register 9">>>>,
     <<<<<<"p", "14">>, <<"c", "0">>, 0, <<"c", "10">>, 4>>, <<"DBGBVR10", "Debug Breakpoint Value Register 10">>>>,
     <<<<<<"p", "14">>, <<"c", "0">>, 0, <<"c", "11">>, 4>>, <<"DBGBVR11", "Debug Breakpoint Value Register 11">>>>,
     <<<<<<"p", "14">>, <<"c", "0">>, 0, <<"c", "12">>, 4>>, <<"DBGBVR12", "Debug Breakpoint Value Register 12">>>>,
     <<<<<<"p", "14">>, <<"c", "0">>, 0, <<"c", "13">>, 4>>, <<"DBGBVR13", "Debug Breakpoint Value Register 13">>>>,
     <<<<<<"p", "14">>, <<"c", "0">>, 0, <<"c", "14">>, 4>>, <<"DBGBVR14", "Debug Breakpoint Value Register 14">>>>,
     <<<<<<"p", "14">>, <<"c", "0">>, 0, <<"c", "15">>, 4>>, <<"DBGBVR15", "Debug Breakpoint Value Register 15">>>>,
     <<<<<<"p", "14">>, <<"c", "0">>, 0, <<"c", "0">>, 5>>, <<"DBGBCR0", "Debug Breakpoint Control Register 0">>>>,
     <<<<<<"p", "14">>, <<"c", "0">>, 0, <<"c", "1">>, 5>>, <<"DBGBCR1", "Debug Breakpoint Control Register 1">>>>,
     <<<<<<"p", "14">>, <<"c", "0">>, 0, <<"c", "2">>, 5>>, <<"DBGBCR2", "Debug Breakpoint Control Register 2">>>>,
     <<<<<<"p", "14">>, <<"c", "0">>, 0, <<"c", "3">>, 5>>, <<"DBGBCR3", "Debug Breakpoint Control Register 3">>>>,
     <<<<<<"p", "14">>, <<"c", "0">>, 0, <<"c", "4">>, 5>>, <<"DBGBCR4", "Debug Breakpoint Control Register 4">>>>,
     <<<<<<"p", "14">>, <<"c", "0">>, 0, <<"c", "5">>, 5>>, <<"DBGBCR5", "Debug Breakpoint Control Register 5">>>>,
     <<<<<<"p", "14">>, <<"c", "0">>, 0, <<"c", "6">>, 5>>, <<"DBGBCR6", "Debug Breakpoint Control Register 6">>>>,
     <<<<<<"p", "14">>, <<"c", "0">>, 0, <<"c", "7">>, 5>>, <<"DBGBCR7", "Debug Breakpoint Control Register 7">>>>,
     <<<<<<"p", "14">>, <<"c", "0">>, 0, <<"c", "8">>, 5>>, <<"DBGBCR8", "Debug Breakpoint Control Register 8">>>>,
     <<<<<<"p", "14">>, <<"c", "0">>, 0, <<"c", "9">>, 5>>, <<"DBGBCR9", "Debug Breakpoint Control Register 9">>>>,
     <<<<<<"p", "14">>, <<"c", "0">>, 0, <<"c", "10">>, 5>>, <<"DBGBCR10", "Debug Breakpoint Control Register 10">>>>,
     <<<<<<"p", "14">>, <<"c", "0">>, 0, <<"c", "11">>, 5>>, <<"DBGBCR11", "Debug Breakpoint Control Register 11">>>>,
     <<<<<<"p", "14">>, <<"c", "0">>, 0, <<"c", "12">>, 5>>, <<"DBGBCR12", "Debug Breakpoint Control Register 12">>>>,
     <<<<<<"p", "14">>, <<"c", "0">>, 0, <<"c", "13">>, 5>>, <<"DBGBCR13", "Debug Breakpoint Control Register 13">>>>,
     <<<<<<"p", "14">>, <<"c", "0">>, 0, <<"c", "14">>, 5>>, <<"DBGBCR14", "Debug Breakpoint Control Register 14">>>>,
     <<<<<<"p", "14">>, <<"c", "0">>, 0, <<"c", "15">>, 5>>, <<"DBGBCR15", "Debug Breakpoint Control Register 15">>>>,
     <<<<<<"p", "14">>, <<"c", "0">>, 0, <<"c", "0">>, 6>>, <<"DBGWVR0", "Debug Watchpoint Value Register 0">>>>,
     <<<<<<"p", "14">>, <<"c", "0">>, 0, <<"c", "1">>, 6>>, <<"DBGWVR1", "Debug Watchpoint Value Register 1">>>>,
     <<<<<<"p", "14">>, <<"c", "0">>, 0, <<"c", "2">>, 6>>, <<"DBGWVR2", "Debug Watchpoint Value Register 2">>>>,
     <<<<<<"p", "14">>, <<"c", "0">>, 0, <<"c", "3">>, 6>>, <<"DBGWVR3", "Debug Watchpoint Value Register 3">>>>,
     <<<<<<"p", "14">>, <<"c", "0">>, 0, <<"c", "4">>, 6>>, <<"DBGWVR4", "Debug Watchpoint Value Register 4">>>>,
     <<<<<<"p", "14">>, <<"c", "0">>, 0, <<"c", "5">>, 6>>, <<"DBGWVR5", "Debug Watchpoint Value Register 5">>>>,
     <<<<<<"p", "14">>, <<"c", "0">>, 0, <<"c", "6">>, 6>>, <<"DBGWVR6", "Debug Watchpoint Value Register 6">>>>,
     <<<<<<"p", "14">>, <<"c", "0">>, 0, <<"c", "7">>, 6>>, <<"DBGWVR7", "Debug Watchpoint Value Register 7">>>>,
     <<<<<<"p", "14">>, <<"c", "0">>, 0, <<"c", "8">>, 6>>, <<"DBGWVR8", "Debug Watchpoint Value Register 8">>>>,
     <<<<<<"p", "14">>, <<"c", "0">>, 0, <<"c", "9">>, 6>>, <<"DBGWVR9", "Debug Watchpoint Value Register 9">>>>,
     <<<<<<"p", "14">>, <<"c", "0">>, 0, <<"c", "10">>, 6>>, <<"DBGWVR10", "Debug Watchpoint Value Register 10">>>>,
     <<<<<<"p", "14">>, <<"c", "0">>, 0, <<"c", "11">>, 6>>, <<"DBGWVR11", "Debug Watchpoint Value Register 11">>>>,
     <<<<<<"p", "14">>, <<"c", "0">>, 0, <<"c", "12">>, 6>>, <<"DBGWVR12", "Debug Watchpoint Value Register 12">>>>,
     <<<<<<"p", "14">>, <<"c", "0">>, 0, <<"c", "13">>, 6>>, <<"DBGWVR13", "Debug Watchpoint Value Register 13">>>>,
     <<<<<<"p", "14">>, <<"c", "0">>, 0, <<"c", "14">>, 6>>, <<"DBGWVR14", "Debug Watchpoint Value Register 14">>>>,
     <<<<<<"p", "14">>, <<"c", "0">>, 0, <<"c", "15">>, 6>>, <<"DBGWVR15", "Debug Watchpoint Value Register 15">>>>,
     <<<<<<"p", "14">>, <<"c", "0">>, 0, <<"c", "0">>, 7>>, <<"DBGWCR0", "Debug Watchpoint Control Register 0">>>>,
     <<<<<<"p", "14">>, <<"c", "0">>, 0, <<"c", "1">>, 7>>, <<"DBGWCR1", "Debug Watchpoint Control Register 1">>>>,
     <<<<<<"p", "14">>, <<"c", "0">>, 0, <<"c", "2">>, 7>>, <<"DBGWCR2", "Debug Watchpoint Control Register 2">>>>,
     <<<<<<"p", "14">>, <<"c", "0">>, 0, <<"c", "3">>, 7>>, <<"DBGWCR3", "Debug Watchpoint Control Register 3">>>>,
     <<<<<<"p", "14">>, <<"c", "0">>, 0, <<"c", "4">>, 7>>, <<"DBGWCR4", "Debug Watchpoint Control Register 4">>>>,
     <<<<<<"p", "14">>, <<"c", "0">>, 0, <<"c", "5">>, 7>>, <<"DBGWCR5", "Debug Watchpoint Control Register 5">>>>,
     <<<<<<"p", "14">>, <<"c", "0">>, 0, <<"c", "6">>, 7>>, <<"DBGWCR6", "Debug Watchpoint Control Register 6">>>>,
     <<<<<<"p", "14">>, <<"c", "0">>, 0, <<"c", "7">>, 7>>, <<"DBGWCR7", "Debug Watchpoint Control Register 7">>>>,
     <<<<<<"p", "14">>, <<"c", "0">>, 0, <<"c", "8">>, 7>>, <<"DBGWCR8", "Debug Watchpoint Control Register 8">>>>,
     <<<<<<"p", "14">>, <<"c", "0">>, 0, <<"c", "9">>, 7>>, <<"DBGWCR9", "Debug Watchpoint Control Register 9">>>>,
     <<<<<<"p", "14">>, <<"c", "0">>, 0, <<"c", "10">>, 7>>, <<"DBGWCR10", "Debug Watchpoint Control Register 10">>>>,
     <<<<<<"p", "14">>, <<"c", "0">>, 0, <<"c", "11">>, 7>>, <<"DBGWCR11", "Debug Watchpoint Control Register 11">>>>,
     <<<<<<"p", "14">>, <<"c", "0">>, 0, <<"c", "12">>, 7>>, <<"DBGWCR12", "Debug Watchpoint Control Register 12">>>>,
     <<<<<<"p", "14">>, <<"c", "0">>, 0, <<"c", "13">>, 7>>, <<"DBGWCR13", "Debug Watchpoint Control Register 13">>>>,
     <<<<<<"p", "14">>, <<"c", "0">>, 0, <<"c", "14">>, 7>>, <<"DBGWCR14", "Debug Watchpoint Control Register 14">>>>,
     <<<<<<"p", "14">>, <<"c", "0">>, 0, <<"c", "15">>, 7>>, <<"DBGWCR15", "Debug Watchpoint Control Register 15">>>>,
     <<<<<<"p", "14">>, <<"c", "1">>, 0, <<"c", "0">>, 1>>, <<"DBGBXVR0", "Debug Breakpoint Extended Value Register 0">>>>,
     <<<<<<"p", "14">>, <<"c", "1">>, 0, <<"c", "1">>, 1>>, <<"DBGBXVR1", "Debug Breakpoint Extended Value Register 1">>>>,
     <<<<<<"p", "14">>, <<"c", "1">>, 0, <<"c", "2">>, 1>>, <<"DBGBXVR2", "Debug Breakpoint Extended Value Register 2">>>>,
     <<<<<<"p", "14">>, <<"c", "1">>, 0, <<"c", "3">>, 1>>, <<"DBGBXVR3", "Debug Breakpoint Extended Value Register 3">>>>,
     <<<<<<"p", "14">>, <<"c", "1">>, 0, <<"c", "4">>, 1>>, <<"DBGBXVR4", "Debug Breakpoint Extended Value Register 4">>>>,
     <<<<<<"p", "14">>, <<"c", "1">>, 0, <<"c", "5">>, 1>>, <<"DBGBXVR5", "Debug Breakpoint Extended Value Register 5">>>>,
     <<<<<<"p", "14">>, <<"c", "1">>, 0, <<"c", "6">>, 1>>, <<"DBGBXVR6", "Debug Breakpoint Extended Value Register 6">>>>,
     <<<<<<"p", "14">>, <<"c", "1">>, 0, <<"c", "7">>, 1>>, <<"DBGBXVR7", "Debug Breakpoint Extended Value Register 7">>>>,
     <<<<<<"p", "14">>, <<"c", "1">>, 0, <<"c", "8">>, 1>>, <<"DBGBXVR8", "Debug Breakpoint Extended Value Register 8">>>>,
     <<<<<<"p", "14">>, <<"c", "1">>, 0, <<"c", "9">>, 1>>, <<"DBGBXVR9", "Debug Breakpoint Extended Value Register 9">>>>,
     <<<<<<"p", "14">>, <<"c", "1">>, 0, <<"c", "10">>, 1>>, <<"DBGBXVR10", "Debug Breakpoint Extended Value Register 10">>>>,
     <<<<<<"p", "14">>, <<"c", "1">>, 0, <<"c", "11">>, 1>>, <<"DBGBXVR11", "Debug Breakpoint Extended Value Register 11">>>>,
     <<<<<<"p", "14">>, <<"c", "1">>, 0, <<"c", "12">>, 1>>, <<"DBGBXVR12", "Debug Breakpoint Extended Value Register 12">>>>,
     <<<<<<"p", "14">>, <<"c", "1">>, 0, <<"c", "13">>, 1>>, <<"DBGBXVR13", "Debug Breakpoint Extended Value Register 13">>>>,
     <<<<<<"p", "14">>, <<"c", "1">>, 0, <<"c", "14">>, 1>>, <<"DBGBXVR14", "Debug Breakpoint Extended Value Register 14">>>>,
     <<<<<<"p", "14">>, <<"c", "1">>, 0, <<"c", "15">>, 1>>, <<"DBGBXVR15", "Debug Breakpoint Extended Value Register 15">>>>,
     <<<<<<"p", "14">>, <<"c", "1">>, 0, <<"c", "0">>, 4>>, <<"DBGOSLAR", "Debug OS Lock Access Register">>>>,
     <<<<<<"p", "14">>, <<"c", "1">>, 0, <<"c", "1">>, 4>>, <<"DBGOSLSR", "Debug OS Lock Status Register">>>>,
     <<<<<<"p", "14">>, <<"c", "1">>, 0, <<"c", "4">>, 4>>, <<"DBGPRCR", "Debug Power Control Register">>>>,
     <<<<<<"p", "14">>, <<"c", "7">>, 0, <<"c", "14">>, 6>>, <<"DBGAUTHSTATUS", "Debug Authentication Status register">>>>,
     <<<<<<"p", "14">>, <<"c", "7">>, 0, <<"c", "0">>, 7>>, <<"DBGDEVID2", "Debug Device ID register 2">>>>,
     <<<<<<"p", "14">>, <<"c", "7">>, 0, <<"c", "1">>, 7>>, <<"DBGDEVID1", "Debug Device ID register 1">>>>,
     <<<<<<"p", "14">>, <<"c", "7">>, 0, <<"c", "2">>, 7>>, <<"DBGDEVID", "Debug Device ID register 0">>>>,
     <<<<<<"p", "14">>, <<"c", "7">>, 0, <<"c", "8">>, 6>>, <<"DBGCLAIMSET", "Debug Claim Tag Set register">>>>,
     <<<<<<"p", "14">>, <<"c", "7">>, 0, <<"c", "9">>, 6>>, <<"DBGCLAIMCLR", "Debug Claim Tag Clear register">>>>,
     <<<<<<"p", "14">>, <<"c", "0">>, 0, <<"c", "1">>, 0>>, <<"DBGDSCRint", "Debug Status and Control Register, Internal View">>>>,
     <<<<<<"p", "14">>, <<"c", "0">>, 0, <<"c", "5">>, 0>>, <<"DBGDTRRXint", "Debug Data Transfer Register, Receive", "DBGDTRTXint", "Debug Data Transfer Register, Transmit">>>>,
     <<<<<<"p", "14">>, <<"c", "1">>, 0, <<"c", "0">>, 0>>, <<"DBGDRAR", "Debug ROM Address Register">>>>,
     <<<<<<"p", "14">>, <<"c", "1">>, 0, <<"c", "3">>, 4>>, <<"DBGOSDLR", "Debug OS Double Lock Register">>>>,
     <<<<<<"p", "14">>, <<"c", "2">>, 0, <<"c", "0">>, 0>>, <<"DBGDSAR", "Debug Self Address Register">>>> >>

\* SYSTEM_REGISTERS as the sequence of <<key, value>> items of the dict display, in
\* source order (a later item with an equal key replaces an earlier one).
\* The strings of a key are written as operand text (letter runs, digit runs).
SYSTEM_REGISTERS ==
  << <<<<3, 0, <<"c", "4">>, <<"c", "2">>, 2>>, <<"CurrentEL", "Current Exception Level">>>>,
     <<<<3, 3, <<"c", "4">>, <<"c", "2">>, 1>>, <<"DAIF", "Interrupt Mask Bits">>>>,
     <<<<3, 0, <<"c", "4">>, <<"c", "0">>, 1>>, <<"ELR_EL1", "Exception Link Register (EL1)">>>>,
     <<<<3, 4, <<"c", "4">>, <<"c", "0">>, 1>>, <<"ELR_EL2", "Exception Link Register (EL2)">>>>,
     <<<<3, 5, <<"c", "4">>, <<"c", "0">>, 1>>, <<"ELR_EL12", "Exception Link Register (EL1)">>>>,
     <<<<3, 6, <<"c", "4">>, <<"c", "0">>, 1>>, <<"ELR_EL3", "Exception Link Register (EL3)">>>>,
     <<<<3, 3, <<"c", "4">>, <<"c", "4">>, 1>>, <<"FPSR", "Floating-point Status Register">>>>,
     <<<<3, 3, <<"c", "4">>, <<"c", "4">>, 0>>, <<"FPCR", "Floating-point Control Register">>>>,
     <<<<3, 3, <<"c", "4">>, <<"c", "2">>, 0>>, <<"NZCV", "Condition Flags">>>>,
     <<<<3, 0, <<"c", "4">>, <<"c", "1">>, 0>>, <<"SP_EL0", "Stack Pointer (EL0)">>>>,
     <<<<3, 4, <<"c", "4">>, <<"c", "1">>, 0>>, <<"SP_EL1", "Stack Pointer (EL1)">>>>,
     <<<<3, 6, <<"c", "4">>, <<"c", "1">>, 0>>, <<"SP_EL2", "Stack Pointer (EL2)">>>>,
     <<<<3, 0, <<"c", "4">>, <<"c", "2">>, 0>>, <<"SPSel", "Stack Pointer Select">>>>,
     <<<<3, 4, <<"c", "4">>, <<"c", "3">>, 1>>, <<"SPSR_abt", "Saved Program Status Register (Abort mode)">>>>,
     <<<<3, 0, <<"c", "4">>, <<"c", "0">>, 0>>, <<"SPSR_EL1", "Saved Program Status Register (EL1)">>>>,
     <<<<3, 4, <<"c", "4">>, <<"c", "0">>, 0>>, <<"SPSR_EL2", "Saved Program Status Register (EL2)">>>>,
     <<<<3, 5, <<"c", "4">>, <<"c", "0">>, 0>>, <<"SPSR_EL12", "Saved Program Status Register (EL1)">>>>,
     <<<<3, 6, <<"c", "4">>, <<"c", "0">>, 0>>, <<"SPSR_EL3", "Saved Program Status Register (EL3)">>>>,
     <<<<3, 4, <<"c", "4">>, <<"c", "3">>, 3>>, <<"SPSR_fiq", "Saved Program Status Register (FIQ mode)">>>>,
     <<<<3, 4, <<"c", "4">>, <<"c", "3">>, 0>>, <<"SPSR_irq", "Saved Program Status Register (IRQ mode)">>>>,
     <<<<3, 4, <<"c", "4">>, <<"c", "3">>, 2>>, <<"SPSR_und", "Saved Program Status Register (Undefined mode)">>>>,
     <<<<3, 0, <<"c", "1">>, <<"c", "0">>, 1>>, <<"ACTLR_EL1", "Auxiliary Control Register (EL1)">>>>,
     <<<<3, 4, <<"c", "1">>, <<"c", "0">>, 1>>, <<"ACTLR_EL2", "Auxiliary Control Register (EL2)">>>>,
     <<<<3, 6, <<"c", "1">>, <<"c", "0">>, 1>>, <<"ACTLR_EL3", "Auxiliary Control Register (EL3)">>>>,
     <<<<3, 0, <<"c", "4">>, <<"c", "2">>, 3>>, <<"PAN", "Privileged Access Never">>>>,
     <<<<3, 0, <<"c", "4">>, <<"c", "2">>, 4>>, <<"UAO", "User Access Override">>>>,
     <<<<3, 0, <<"c", "5">>, <<"c", "1">>, 0>>, <<"AFSR0_EL1", "Auxiliary Fault Status Register 0 (EL1)">>>>,
     <<<<3, 4, <<"c", "5">>, <<"c", "1">>, 0>>, <<"AFSR0_EL2", "Auxiliary Fault Status Register 0 (EL2)">>>>,
     <<<<3, 5, <<"c", "5">>, <<"c", "1">>, 0>>, <<"AFSR0_EL12", "Auxiliary Fault Status Register 0 (EL1)">>>>,
     <<<<3, 6, <<"c", "5">>, <<"c", "1">>, 0>>, <<"AFSR0_EL3", "Auxiliary Fault Status Register 0 (EL3)">>>>,
     <<<<3, 0, <<"c", "5">>, <<"c", "1">>, 1>>, <<"AFSR1_EL1", "Auxiliary Fault Status Register 1 (EL1)">>>>,
     <<<<3, 4, <<"c", "5">>, <<"c", "1">>, 1>>, <<"AFSR1_EL2", "Auxiliary Fault Status Register 1 (EL2)">>>>,
     <<<<3, 5, <<"c", "5">>, <<"c", "1">>, 1>>, <<"AFSR1_EL12", "Auxiliary Fault Status Register 1 (EL1)">>>>,
     <<<<3, 6, <<"c", "5">>, <<"c", "1">>, 1>>, <<"AFSR1_EL3", "Auxiliary Fault Status Register 1 (EL3)">>>>,
     <<<<3, 1, <<"c", "0">>, <<"c", "0">>, 7>>, <<"AIDR_EL1", "Auxiliary ID Register">>>>,
     <<<<3, 0, <<"c", "10">>, <<"c", "3">>, 0>>, <<"AMAIR_EL1", "Auxiliary Memory Attribute Indirection Register (EL1)">>>>,
     <<<<3, 4, <<"c", "10">>, <<"c", "3">>, 0>>, <<"AMAIR_EL2", "Auxiliary Memory Attribute Indirection Register (EL2)">>>>,
     <<<<3, 5, <<"c", "10">>, <<"c", "3">>, 0>>, <<"AMAIR_EL12", "Auxiliary Memory Attribute Indirection Register (EL1)">>>>,
     <<<<3, 6, <<"c", "10">>, <<"c", "3">>, 0>>, <<"AMAIR_EL3", "Auxiliary Memory Attribute Indirection Register (EL3)">>>>,
     <<<<3, 1, <<"c", "0">>, <<"c", "0">>, 0>>, <<"CCSIDR_EL1", "Current Cache Size ID Register">>>>,
     <<<<3, 1, <<"c", "0">>, <<"c", "0">>, 2>>, <<"CCSIDR2_EL1", "Current Cache Size ID Register 2">>>>,
     <<<<3, 1, <<"c", "0">>, <<"c", "0">>, 1>>, <<"CLIDR_EL1", "Cache Level ID Register">>>>,
     <<<<3, 0, <<"c", "13">>, <<"c", "0">>, 1>>, <<"CONTEXTIDR_EL1", "Context ID Register (EL1)">>>>,
     <<<<3, 4, <<"c", "13">>, <<"c", "0">>, 1>>, <<"CONTEXTIDR_EL2", "Context ID Register (EL2)">>>>,
     <<<<3, 5, <<"c", "13">>, <<"c", "0">>, 1>>, <<"CONTEXTIDR_EL12", "Context ID Register (EL1)">>>>,
     <<<<3, 0, <<"c", "1">>, <<"c", "0">>, 2>>, <<"CPACR_EL1", "Architectural Feature Access Control Register (EL1)">>>>,
     <<<<3, 5, <<"c", "1">>, <<"c", "0">>, 2>>, <<"CPACR_EL12", "Architectural Feature Access Control Register (EL1)">>>>,
     <<<<3, 4, <<"c", "1">>, <<"c", "1">>, 2>>, <<"CPTR_EL2", "Architectural Feature Trap Register (EL2)">>>>,
     <<<<3, 6, <<"c", "1">>, <<"c", "1">>, 2>>, <<"CPTR_EL3", "Architectural Feature Trap Register (EL3)">>>>,
     <<<<3, 2, <<"c", "0">>, <<"c", "0">>, 0>>, <<"CSSELR_EL1", "Cache Size Selection Register">>>>,
     <<<<3, 3, <<"c", "0">>, <<"c", "0">>, 1>>, <<"CTR_EL0", "Cache Type Register">>>>,
     <<<<3, 4, <<"c", "3">>, <<"c", "0">>, 0>>, <<"DACR32_EL2", "Domain Access Control Register">>>>,
     <<<<3, 3, <<"c", "0">>, <<"c", "0">>, 7>>, <<"DCZID_EL0", "Data Cache Zero ID register">>>>,
     <<<<3, 0, <<"c", "5">>, <<"c", "2">>, 0>>, <<"ESR_EL1", "Exception Syndrome Register (EL1)">>>>,
     <<<<3, 4, <<"c", "5">>, <<"c", "2">>, 0>>, <<"ESR_EL2", "Exception Syndrome Register (EL2)">>>>,
     <<<<3, 5, <<"c", "5">>, <<"c", "2">>, 0>>, <<"ESR_EL12", "Exception Syndrome Register (EL1)">>>>,
     <<<<3, 6, <<"c", "5">>, <<"c", "2">>, 0>>, <<"ESR_EL3", "Exception Syndrome Register (EL3)">>>>,
     <<<<3, 0, <<"c", "6">>, <<"c", "0">>, 0>>, <<"FAR_EL1", "Fault Address Register (EL1)">>>>,
     <<<<3, 4, <<"c", "6">>, <<"c", "0">>, 0>>, <<"FAR_EL2", "Fault Address Register (EL2)">>>>,
     <<<<3, 5, <<"c", "6">>, <<"c", "0">>, 0>>, <<"FAR_EL12", "Fault Address Register (EL1)">>>>,
     <<<<3, 6, <<"c", "6">>, <<"c", "0">>, 0>>, <<"FAR_EL3", "Fault Address Register (EL3)">>>>,
     <<<<3, 4, <<"c", "5">>, <<"c", "3">>, 0>>, <<"FPEXC32_EL2", "Floating-Point Exception Control register">>>>,
     <<<<3, 4, <<"c", "1">>, <<"c", "1">>, 7>>, <<"HACR_EL2", "Hypervisor Auxiliary Control Register">>>>,
     <<<<3, 4, <<"c", "1">>, <<"c", "1">>, 0>>, <<"HCR_EL2", "Hypervisor Configuration Register">>>>,
     <<<<3, 4, <<"c", "6">>, <<"c", "0">>, 4>>, <<"HPFAR_EL2", "Hypervisor IPA Fault Address Register">>>>,
     <<<<3, 4, <<"c", "1">>, <<"c", "1">>, 3>>, <<"HSTR_EL2", "Hypervisor System Trap Register">>>>,
     <<<<3, 0, <<"c", "0">>, <<"c", "5">>, 4>>, <<"ID_AA64AFR0_EL1", "AArch64 Auxiliary Feature Register 0">>>>,
     <<<<3, 0, <<"c", "0">>, <<"c", "5">>, 5>>, <<"ID_AA64AFR1_EL1", "AArch64 Auxiliary Feature Register 1">>>>,
     <<<<3, 0, <<"c", "0">>, <<"c", "5">>, 0>>, <<"ID_AA64DFR0_EL1", "AArch64 Debug Feature Register 0">>>>,
     <<<<3, 0, <<"c", "0">>, <<"c", "5">>, 1>>, <<"ID_AA64DFR1_EL1", "AArch64 Debug Feature Register 1">>>>,
     <<<<3, 0, <<"c", "0">>, <<"c", "6">>, 0>>, <<"ID_AA64ISAR0_EL1", "AArch64 Instruction Set Attribute Register 0">>>>,
     <<<<3, 0, <<"c", "0">>, <<"c", "6">>, 1>>, <<"ID_AA64ISAR1_EL1", "AArch64 Instruction Set Attribute Register 1">>>>,
     <<<<3, 0, <<"c", "0">>, <<"c", "7">>, 0>>, <<"ID_AA64MMFR0_EL1", "AArch64 Memory Model Feature Register 0">>>>,
     <<<<3, 0, <<"c", "0">>, <<"c", "7">>, 1>>, <<"ID_AA64MMFR1_EL1", "AArch64 Memory Model Feature Register 1">>>>,
     <<<<3, 0, <<"c", "0">>, <<"c", "7">>, 2>>, <<"ID_AA64MMFR2_EL1", "AArch64 Memory Model Feature Register 2">>>>,
     <<<<3, 0, <<"c", "0">>, <<"c", "4">>, 0>>, <<"ID_AA64PFR0_EL1", "AArch64 Processor Feature Register 0">>>>,
     <<<<3, 0, <<"c", "0">>, <<"c", "4">>, 1>>, <<"ID_AA64PFR1_EL1", "AArch64 Processor Feature Register 1">>>>,
     <<<<3, 0, <<"c", "0">>, <<"c", "1">>, 3>>, <<"ID_AFR0_EL1", "AArch32 Auxiliary Feature Register 0">>>>,
     <<<<3, 0, <<"c", "0">>, <<"c", "1">>, 2>>, <<"ID_DFR0_EL1", "AArch32 Debug Feature Register 0">>>>,
     <<<<3, 0, <<"c", "0">>, <<"c", "2">>, 0>>, <<"ID_ISAR0_EL1", "AArch32 Instruction Set Attribute Register 0">>>>,
     <<<<3, 0, <<"c", "0">>, <<"c", "2">>, 1>>, <<"ID_ISAR1_EL1", "AArch32 Instruction Set Attribute Register 1">>>>,
     <<<<3, 0, <<"c", "0">>, <<"c", "2">>, 2>>, <<"ID_ISAR2_EL1", "AArch32 Instruction Set Attribute Register 2">>>>,
     <<<<3, 0, <<"c", "0">>, <<"c", "2">>, 3>>, <<"ID_ISAR3_EL1", "AArch32 Instruction Set Attribute Register 3">>>>,
     <<<<3, 0, <<"c", "0">>, <<"c", "2">>, 4>>, <<"ID_ISAR4_EL1", "AArch32 Instruction Set Attribute Register 4">>>>,
     <<<<3, 0, <<"c", "0">>, <<"c", "2">>, 5>>, <<"ID_ISAR5_EL1", "AArch32 Instruction Set Attribute Register 5">>>>,
     <<<<3, 0, <<"c", "0">>, <<"c", "2">>, 7>>, <<"ID_ISAR6_EL1", "AArch32 Instruction Set Attribute Register 6">>>>,
     <<<<3, 0, <<"c", "0">>, <<"c", "1">>, 4>>, <<"ID_MMFR0_EL1", "AArch32 Memory Model Feature Register 0">>>>,
     <<<<3, 0, <<"c", "0">>, <<"c", "1">>, 5>>, <<"ID_MMFR1_EL1", "AArch32 Memory Model Feature Register 1">>>>,
     <<<<3, 0, <<"c", "0">>, <<"c", "1">>, 6>>, <<"ID_MMFR2_EL1", "AArch32 Memory Model Feature Register 2">>>>,
     <<<<3, 0, <<"c", "0">>, <<"c", "1">>, 7>>, <<"ID_MMFR3_EL1", "AArch32 Memory Model Feature Register 3">>>>,
     <<<<3, 0, <<"c", "0">>, <<"c", "2">>, 6>>, <<"ID_MMFR4_EL1", "AArch32 Memory Model Feature Register 4">>>>,
     <<<<3, 0, <<"c", "0">>, <<"c", "1">>, 0>>, <<"ID_PFR0_EL1", "AArch32 Processor Feature Register 0">>>>,
     <<<<3, 0, <<"c", "0">>, <<"c", "1">>, 1>>, <<"ID_PFR1_EL1", "AArch32 Processor Feature Register 1">>>>,
     <<<<3, 4, <<"c", "5">>, <<"c", "0">>, 1>>, <<"IFSR32_EL2", "Instruction Fault Status Register (EL2)">>>>,
     <<<<3, 0, <<"c", "12">>, <<"c", "1">>, 0>>, <<"ISR_EL1", "Interrupt Status Register">>>>,
     <<<<3, 0, <<"c", "10">>, <<"c", "2">>, 0>>, <<"MAIR_EL1", "Memory Attribute Indirection Register (EL1)">>>>,
     <<<<3, 4, <<"c", "10">>, <<"c", "2">>, 0>>, <<"MAIR_EL2", "Memory Attribute Indirection Register (EL2)">>>>,
     <<<<3, 5, <<"c", "10">>, <<"c", "2">>, 0>>, <<"MAIR_EL12", "Memory Attribute Indirection Register (EL1)">>>>,
     <<<<3, 6, <<"c", "10">>, <<"c", "2">>, 0>>, <<"MAIR_EL3", "Memory Attribute Indirection Register (EL3)">>>>,
     <<<<3, 0, <<"c", "0">>, <<"c", "0">>, 0>>, <<"MIDR_EL1", "Main ID Register">>>>,
     <<<<3, 0, <<"c", "0">>, <<"c", "0">>, 5>>, <<"MPIDR_EL1", "Multiprocessor Affinity Register">>>>,
     <<<<3, 0, <<"c", "0">>, <<"c", "3">>, 0>>, <<"MVFR0_EL1", "AArch32 Media and VFP Feature Register 0">>>>,
     <<<<3, 0, <<"c", "0">>, <<"c", "3">>, 1>>, <<"MVFR1_EL1", "AArch32 Media and VFP Feature Register 1">>>>,
     <<<<3, 0, <<"c", "0">>, <<"c", "3">>, 2>>, <<"MVFR2_EL1", "AArch32 Media and VFP Feature Register 2">>>>,
     <<<<3, 0, <<"c", "7">>, <<"c", "4">>, 0>>, <<"PAR_EL1", "Physical Address Register">>>>,
     <<<<3, 0, <<"c", "0">>, <<"c", "0">>, 6>>, <<"REVIDR_EL1", "Revision ID Register">>>>,
     <<<<3, 0, <<"c", "12">>, <<"c", "0">>, 2>>, <<"RMR_EL1", "Reset Management Register (EL1)">>>>,
     <<<<3, 4, <<"c", "12">>, <<"c", "0">>, 2>>, <<"RMR_EL2", "Reset Management Register (EL2)">>>>,
     <<<<3, 6, <<"c", "12">>, <<"c", "0">>, 2>>, <<"RMR_EL3", "Reset Management Register (EL3)">>>>,
     <<<<3, 0, <<"c", "12">>, <<"c", "0">>, 1>>, <<"RVBAR_EL1", "Reset Vector Base Address Register (if EL2 and EL3 not implemented)">>>>,
     <<<<3, 4, <<"c", "12">>, <<"c", "0">>, 1>>, <<"RVBAR_EL2", "Reset Vector Base Address Register (if EL3 not implemented)">>>>,
     <<<<3, 6, <<"c", "12">>, <<"c", "0">>, 1>>, <<"RVBAR_EL3", "Reset Vector Base Address Register (if EL3 implemented)">>>>,
     <<<<3, 6, <<"c", "1">>, <<"c", "1">>, 0>>, <<"SCR_EL3", "Secure Configuration Register">>>>,
     <<<<3, 6, <<"c", "1">>, <<"c", "1">>, 1>>, <<"SDER_EL3", "AArch32 Secure Debug Enable Register">>>>,
     <<<<3, 0, <<"c", "1">>, <<"c", "0">>, 0>>, <<"SCTLR_EL1", "System Control Register (EL1)">>>>,
     <<<<3, 4, <<"c", "1">>, <<"c", "0">>, 0>>, <<"SCTLR_EL2", "System Control Register (EL2)">>>>,
     <<<<3, 5, <<"c", "1">>, <<"c", "0">>, 0>>, <<"SCTLR_EL12", "System Control Register (EL1)">>>>,
     <<<<3, 6, <<"c", "1">>, <<"c", "0">>, 0>>, <<"SCTLR_EL3", "System Control Register (EL3)">>>>,
     <<<<3, 0, <<"c", "2">>, <<"c", "0">>, 2>>, <<"TCR_EL1", "Translation Control Register (EL1)">>>>,
     <<<<3, 4, <<"c", "2">>, <<"c", "0">>, 2>>, <<"TCR_EL2", "Translation Control Register (EL2)">>>>,
     <<<<3, 5, <<"c", "2">>, <<"c", "0">>, 2>>, <<"TCR_EL12", "Translation Control Register (EL1)">>>>,
     <<<<3, 6, <<"c", "2">>, <<"c", "0">>, 2>>, <<"TCR_EL3", "Translation Control Register (EL3)">>>>,
     <<<<3, 2, <<"c", "0">>, <<"c", "0">>, 0>>, <<"TEECR32_EL1", "T32EE Configuration Register">>>>,
     <<<<3, 2, <<"c", "1">>, <<"c", "0">>, 0>>, <<"TEEHBR32_EL1", "T32EE Handler Base Register">>>>,
     <<<<3, 3, <<"c", "13">>, <<"c", "0">>, 2>>, <<"TPIDR_EL0", "EL0 Read/Write Software Thread ID Register">>>>,
     <<<<3, 0, <<"c", "13">>, <<"c", "0">>, 4>>, <<"TPIDR_EL1", "EL1 Software Thread ID Register">>>>,
     <<<<3, 4, <<"c", "13">>, <<"c", "0">>, 2>>, <<"TPIDR_EL2", "EL2 Software Thread ID Register">>>>,
     <<<<3, 6, <<"c", "13">>, <<"c", "0">>, 2>>, <<"TPIDR_EL3", "EL3 Software Thread ID Register">>>>,
     <<<<3, 3, <<"c", "13">>, <<"c", "0">>, 3>>, <<"TPIDRRO_EL0", "EL0 Read-Only Software Thread ID Register">>>>,
     <<<<3, 0, <<"c", "2">>, <<"c", "0">>, 0>>, <<"TTBR0_EL1", "Translation Table Base Register 0 (EL1)">>>>,
     <<<<3, 4, <<"c", "2">>, <<"c", "0">>, 0>>, <<"TTBR0_EL2", "Translation Table Base Register 0 (EL2)">>>>,
     <<<<3, 5, <<"c", "2">>, <<"c", "0">>, 0>>, <<"TTBR0_EL12", "Translation Table Base Register 0 (EL1)">>>>,
     <<<<3, 6, <<"c", "2">>, <<"c", "0">>, 0>>, <<"TTBR0_EL3", "Translation Table Base Register 0 (EL3)">>>>,
     <<<<3, 0, <<"c", "2">>, <<"c", "0">>, 1>>, <<"TTBR1_EL1", "Translation Table Base Register 1 (EL1)">>>>,
     <<<<3, 4, <<"c", "2">>, <<"c", "0">>, 1>>, <<"TTBR1_EL2", "Translation Table Base Register 1 (EL2)">>>>,
     <<<<3, 5, <<"c", "2">>, <<"c", "0">>, 1>>, <<"TTBR1_EL12", "Translation Table Base Register 1 (EL1)">>>>,
     <<<<3, 0, <<"c", "12">>, <<"c", "0">>, 0>>, <<"VBAR_EL1", "Vector Base Address Register (EL1)">>>>,
     <<<<3, 4, <<"c", "12">>, <<"c", "0">>, 0>>, <<"VBAR_EL2", "Vector Base Address Register (EL2)">>>>,
     <<<<3, 5, <<"c", "12">>, <<"c", "0">>, 0>>, <<"VBAR_EL12", "Vector Base Address Register (EL1)">>>>,
     <<<<3, 6, <<"c", "12">>, <<"c", "0">>, 0>>, <<"VBAR_EL3", "Vector Base Address Register (EL3)">>>>,
     <<<<3, 4, <<"c", "0">>, <<"c", "0">>, 5>>, <<"VMPIDR_EL2", "Virtualization Multiprocessor ID Register">>>>,
     <<<<3, 4, <<"c", "0">>, <<"c", "0">>, 0>>, <<"VPIDR_EL2", "Virtualization Processor ID Register">>>>,
     <<<<3, 4, <<"c", "2">>, <<"c", "1">>, 2>>, <<"VTCR_EL2", "Virtualization Translation Control Register">>>>,
     <<<<3, 4, <<"c", "2">>, <<"c", "1">>, 0>>, <<"VTTBR_EL2", "Virtualization Translation Table Base Register">>>>,
     <<<<3, 1, <<"c", "15">>, <<"c", "2">>, 0>>, <<"CPUACTLR_EL1", "CPU Auxiliary Control Register (EL1)">>>>,
     <<<<3, 1, <<"c", "15">>, <<"c", "2">>, 1>>, <<"CPUECTLR_EL1", "CPU Extended Control Register (EL1)">>>>,
     <<<<3, 1, <<"c", "15">>, <<"c", "2">>, 2>>, <<"CPUMERRSR_EL1", "CPU Memory Error Syndrome Register">>>>,
     <<<<3, 1, <<"c", "15">>, <<"c", "2">>, 3>>, <<"L2MERRSR_EL1", "L2 Memory Error Syndrome Register">>>>,
     <<<<3, 0, <<"c", "2">>, <<"c", "1">>, 0>>, <<"APIAKeyLo_EL1", "Pointer Authentication Key A for Instruction (bits[63:0]) ">>>>,
     <<<<3, 0, <<"c", "2">>, <<"c", "1">>, 1>>, <<"APIAKeyHi_EL1", "Pointer Authentication Key A for Instruction (bits[127:64]) ">>>>,
     <<<<3, 0, <<"c", "2">>, <<"c", "1">>, 2>>, <<"APIBKeyLo_EL1", "Pointer Authentication Key B for Instruction (bits[63:0]) ">>>>,
     <<<<3, 0, <<"c", "2">>, <<"c", "1">>, 3>>, <<"APIBKeyHi_EL1", "Pointer Authentication Key B for Instruction (bits[127:64]) ">>>>,
     <<<<3, 0, <<"c", "2">>, <<"c", "2">>, 0>>, <<"APDAKeyLo_EL1", "Pointer Authentication Key A for Data (bits[63:0]) ">>>>,
     <<<<3, 0, <<"c", "2">>, <<"c", "2">>, 1>>, <<"APDAKeyHi_EL1", "Pointer Authentication Key A for Data (bits[127:64]) ">>>>,
     <<<<3, 0, <<"c", "2">>, <<"c", "2">>, 2>>, <<"APDBKeyLo_EL1", "Pointer Authentication Key B for Data (bits[63:0]) ">>>>,
     <<<<3, 0, <<"c", "2">>, <<"c", "2">>, 3>>, <<"APDBKeyHi_EL1", "Pointer Authentication Key B for Data (bits[127:64]) ">>>>,
     <<<<3, 0, <<"c", "2">>, <<"c", "3">>, 0>>, <<"APGAKeyLo_EL1", "Pointer Authentication Key A for Code  (bits[63:0]) ">>>>,
     <<<<3, 0, <<"c", "2">>, <<"c", "3">>, 1>>, <<"APGAKeyHi_EL1", "Pointer Authentication Key A for Code (bits[127:64]) ">>>>,
     <<<<3, 4, <<"c", "1">>, <<"c", "1">>, 1>>, <<"MDCR_EL2", "Monitor Debug Configuration Register (EL2)">>>>,
     <<<<3, 6, <<"c", "1">>, <<"c", "3">>, 1>>, <<"MDCR_EL3", "Monitor Debug Configuration Register (EL3)">>>>,
     <<<<3, 3, <<"c", "4">>, <<"c", "5">>, 0>>, <<"DSPSR_EL0", "Debug Saved Program Status Register">>>>,
     <<<<3, 3, <<"c", "4">>, <<"c", "5">>, 1>>, <<"DLR_EL0", "Debug Link Register">>>>,
     <<<<2, 0, <<"c", "0">>, <<"c", "0">>, 2>>, <<"OSDTRRX_EL1", "OS Lock Data Transfer Register, Receive">>>>,
     <<<<2, 0, <<"c", "0">>, <<"c", "3">>, 2>>, <<"OSDTRTX_EL1", "OS Lock Data Transfer Register, Transmit">>>>,
     <<<<2, 0, <<"c", "0">>, <<"c", "6">>, 2>>, <<"OSECCR_EL1", "OS Lock Exception Catch Control Register">>>>,
     <<<<2, 3, <<"c", "0">>, <<"c", "4">>, 0>>, <<"DBGDTR_EL0", "Debug Data Transfer Register, half-duplex">>>>,
     <<<<2, 3, <<"c", "0">>, <<"c", "5">>, 0>>, <<"DBGDTRTX_EL0", "Debug Data Transfer Register, Transmit", "DBGDTRRX_EL0", "Debug Data Transfer Register, Receive">>>>,
     <<<<2, 4, <<"c", "0">>, <<"c", "7">>, 0>>, <<"DBGVCR32_EL2", "Debug Vector Catch Register">>>>,
     <<<<2, 0, <<"c", "0">>, <<"c", "0">>, 4>>, <<"DBGBVR0_EL1", "Debug Breakpoint Value Register 0">>>>,
     <<<<2, 0, <<"c", "0">>, <<"c", "1">>, 4>>, <<"DBGBVR1_EL1", "Debug Breakpoint Value Register 1">>>>,
     <<<<2, 0, <<"c", "0">>, <<"c", "2">>, 4>>, <<"DBGBVR2_EL1", "Debug Breakpoint Value Register 2">>>>,
     <<<<2, 0, <<"c", "0">>, <<"c", "3">>, 4>>, <<"DBGBVR3_EL1", "Debug Breakpoint Value Register 3">>>>,
     <<<<2, 0, <<"c", "0">>, <<"c", "4">>, 4>>, <<"DBGBVR4_EL1", "Debug Breakpoint Value Register 4">>>>,
     <<<<2, 0, <<"c", "0">>, <<"c", "5">>, 4>>, <<"DBGBVR5_EL1", "Debug Breakpoint Value Register 5">>>>,
     <<<<2, 0, <<"c", "0">>, <<"c", "6">>, 4>>, <<"DBGBVR6_EL1", "Debug Breakpoint Value Register 6">>>>,
     <<<<2, 0, <<"c", "0">>, <<"c", "7">>, 4>>, <<"DBGBVR7_EL1", "Debug Breakpoint Value Register 7">>>>,
     <<<<2, 0, <<"c", "0">>, <<"c", "8">>, 4>>, <<"DBGBVR8_EL1", "Debug Breakpoint Value Register 8">>>>,
     <<<<2, 0, <<"c", "0">>, <<"c", "9">>, 4>>, <<"DBGBVR9_EL1", "Debug Breakpoint Value Register 9">>>>,
     <<<<2, 0, <<"c", "0">>, <<"c", "10">>, 4>>, <<"DBGBVR10_EL1", "Debug Breakpoint Value Registers 10">>>>,
     <<<<2, 0, <<"c", "0">>, <<"c", "11">>, 4>>, <<"DBGBVR11_EL1", "Debug Breakpoint Value Registers 11">>>>,
     <<<<2, 0, <<"c", "0">>, <<"c", "12">>, 4>>, <<"DBGBVR12_EL1", "Debug Breakpoint Value Registers 12">>>>,
     <<<<2, 0, <<"c", "0">>, <<"c", "13">>, 4>>, <<"DBGBVR13_EL1", "Debug Breakpoint Value Registers 13">>>>,
     <<<<2, 0, <<"c", "0">>, <<"c", "14">>, 4>>, <<"DBGBVR14_EL1", "Debug Breakpoint Value Registers 14">>>>,
     <<<<2, 0, <<"c", "0">>, <<"c", "15">>, 4>>, <<"DBGBVR15_EL1", "Debug Breakpoint Value Registers 15">>>>,
     <<<<2, 0, <<"c", "0">>, <<"c", "0">>, 5>>, <<"DBGBCR0_EL1", "Debug Breakpoint Control Register 0">>>>,
     <<<<2, 0, <<"c", "0">>, <<"c", "1">>, 5>>, <<"DBGBCR1_EL1", "Debug Breakpoint Control Register 1">>>>,
     <<<<2, 0, <<"c", "0">>, <<"c", "2">>, 5>>, <<"DBGBCR2_EL1", "Debug Breakpoint Control Register 2">>>>,
     <<<<2, 0, <<"c", "0">>, <<"c", "3">>, 5>>, <<"DBGBCR3_EL1", "Debug Breakpoint Control Register 3">>>>,
     <<<<2, 0, <<"c", "0">>, <<"c", "4">>, 5>>, <<"DBGBCR4_EL1", "Debug Breakpoint Control Register 4">>>>,
     <<<<2, 0, <<"c", "0">>, <<"c", "5">>, 5>>, <<"DBGBCR5_EL1", "Debug Breakpoint Control Register 5">>>>,
     <<<<2, 0, <<"c", "0">>, <<"c", "6">>, 5>>, <<"DBGBCR6_EL1", "Debug Breakpoint Control Register 6">>>>,
     <<<<2, 0, <<"c", "0">>, <<"c", "7">>, 5>>, <<"DBGBCR7_EL1", "Debug Breakpoint Control Register 7">>>>,
     <<<<2, 0, <<"c", "0">>, <<"c", "8">>, 5>>, <<"DBGBCR8_EL1", "Debug Breakpoint Control Register 8">>>>,
     <<<<2, 0, <<"c", "0">>, <<"c", "9">>, 5>>, <<"DBGBCR9_EL1", "Debug Breakpoint Control Register 9">>>>,
     <<<<2, 0, <<"c", "0">>, <<"c", "10">>, 5>>, <<"DBGBCR10_EL1", "Debug Breakpoint Control Register 10">>>>,
     <<<<2, 0, <<"c", "0">>, <<"c", "11">>, 5>>, <<"DBGBCR11_EL1", "Debug Breakpoint Control Register 11">>>>,
     <<<<2, 0, <<"c", "0">>, <<"c", "12">>, 5>>, <<"DBGBCR12_EL1", "Debug Breakpoint Control Register 12">>>>,
     <<<<2, 0, <<"c", "0">>, <<"c", "13">>, 5>>, <<"DBGBCR13_EL1", "Debug Breakpoint Control Register 13">>>>,
     <<<<2, 0, <<"c", "0">>, <<"c", "14">>, 5>>, <<"DBGBCR14_EL1", "Debug Breakpoint Control Register 14">>>>,
     <<<<2, 0, <<"c", "0">>, <<"c", "15">>, 5>>, <<"DBGBCR15_EL1", "Debug Breakpoint Control Register 15">>>>,
     <<<<2, 0, <<"c", "0">>, <<"c", "0">>, 6>>, <<"DBGWVR0_EL1", "Debug Watchpoint Value Register 0">>>>,
     <<<<2, 0, <<"c", "0">>, <<"c", "1">>, 6>>, <<"DBGWVR1_EL1", "Debug Watchpoint Value Register 1">>>>,
     <<<<2, 0, <<"c", "0">>, <<"c", "2">>, 6>>, <<"DBGWVR2_EL1", "Debug Watchpoint Value Register 2">>>>,
     <<<<2, 0, <<"c", "0">>, <<"c", "3">>, 6>>, <<"DBGWVR3_EL1", "Debug Watchpoint Value Register 3">>>>,
     <<<<2, 0, <<"c", "0">>, <<"c", "4">>, 6>>, <<"DBGWVR4_EL1", "Debug Watchpoint Value Register 4">>>>,
     <<<<2, 0, <<"c", "0">>, <<"c", "5">>, 6>>, <<"DBGWVR5_EL1", "Debug Watchpoint Value Register 5">>>>,
     <<<<2, 0, <<"c", "0">>, <<"c", "6">>, 6>>, <<"DBGWVR6_EL1", "Debug Watchpoint Value Register 6">>>>,
     <<<<2, 0, <<"c", "0">>, <<"c", "7">>, 6>>, <<"DBGWVR7_EL1", "Debug Watchpoint Value Register 7">>>>,
     <<<<2, 0, <<"c", "0">>, <<"c", "8">>, 6>>, <<"DBGWVR8_EL1", "Debug Watchpoint Value Register 8">>>>,
     <<<<2, 0, <<"c", "0">>, <<"c", "9">>, 6>>, <<"DBGWVR9_EL1", "Debug Watchpoint Value Register 9">>>>,
     <<<<2, 0, <<"c", "0">>, <<"c", "10">>, 6>>, <<"DBGWVR10_EL1", "Debug Watchpoint Value Register 10">>>>,
     <<<<2, 0, <<"c", "0">>, <<"c", "11">>, 6>>, <<"DBGWVR11_EL1", "Debug Watchpoint Value Register 11">>>>,
     <<<<2, 0, <<"c", "0">>, <<"c", "12">>, 6>>, <<"DBGWVR12_EL1", "Debug Watchpoint Value Register 12">>>>,
     <<<<2, 0, <<"c", "0">>, <<"c", "13">>, 6>>, <<"DBGWVR13_EL1", "Debug Watchpoint Value Register 13">>>>,
     <<<<2, 0, <<"c", "0">>, <<"c", "14">>, 6>>, <<"DBGWVR14_EL1", "Debug Watchpoint Value Register 14">>>>,
     <<<<2, 0, <<"c", "0">>, <<"c", "15">>, 6>>, <<"DBGWVR15_EL1", "Debug Watchpoint Value Register 15">>>>,
     <<<<2, 0, <<"c", "0">>, <<"c", "0">>, 7>>, <<"DBGWCR0_EL1", "Debug Watchpoint Control Register 0">>>>,
     <<<<2, 0, <<"c", "0">>, <<"c", "1">>, 7>>, <<"DBGWCR1_EL1", "Debug Watchpoint Control Register 1">>>>,
     <<<<2, 0, <<"c", "0">>, <<"c", "2">>, 7>>, <<"DBGWCR2_EL1", "Debug Watchpoint Control Register 2">>>>,
     <<<<2, 0, <<"c", "0">>, <<"c", "3">>, 7>>, <<"DBGWCR3_EL1", "Debug Watchpoint Control Register 3">>>>,
     <<<<2, 0, <<"c", "0">>, <<"c", "4">>, 7>>, <<"DBGWCR4_EL1", "Debug Watchpoint Control Register 4">>>>,
     <<<<2, 0, <<"c", "0">>, <<"c", "5">>, 7>>, <<"DBGWCR5_EL1", "Debug Watchpoint Control Register 5">>>>,
     <<<<2, 0, <<"c", "0">>, <<"c", "6">>, 7>>, <<"DBGWCR6_EL1", "Debug Watchpoint Control Register 6">>>>,
     <<<<2, 0, <<"c", "0">>, <<"c", "7">>, 7>>, <<"DBGWCR7_EL1", "Debug Watchpoint Control Register 7">>>>,
     <<<<2, 0, <<"c", "0">>, <<"c", "8">>, 7>>, <<"DBGWCR8_EL1", "Debug Watchpoint Control Register 8">>>>,
     <<<<2, 0, <<"c", "0">>, <<"c", "9">>, 7>>, <<"DBGWCR9_EL1", "Debug Watchpoint Control Register 9">>>>,
     <<<<2, 0, <<"c", "0">>, <<"c", "10">>, 7>>, <<"DBGWCR10_EL1", "Debug Watchpoint Control Register 10">>>>,
     <<<<2, 0, <<"c", "0">>, <<"c", "11">>, 7>>, <<"DBGWCR11_EL1", "Debug Watchpoint Control Register 11">>>>,
     <<<<2, 0, <<"c", "0">>, <<"c", "12">>, 7>>, <<"DBGWCR12_EL1", "Debug Watchpoint Control Register 12">>>>,
     <<<<2, 0, <<"c", "0">>, <<"c", "13">>, 7>>, <<"DBGWCR13_EL1", "Debug Watchpoint Control Register 13">>>>,
     <<<<2, 0, <<"c", "0">>, <<"c", "14">>, 7>>, <<"DBGWCR14_EL1", "Debug Watchpoint Control Register 14">>>>,
     <<<<2, 0, <<"c", "0">>, <<"c", "15">>, 7>>, <<"DBGWCR15_EL1", "Debug Watchpoint Control Register 15">>>>,
     <<<<2, 3, <<"c", "0">>, <<"c", "1">>, 0>>, <<"MDCCSR_EL0", "Monitor DCC Status Register">>>>,
     <<<<2, 0, <<"c", "0">>, <<"c", "2">>, 0>>, <<"MDCCINT_EL1", "Monitor DCC Interrupt Enable Register">>>>,
     <<<<2, 0, <<"c", "0">>, <<"c", "2">>, 2>>, <<"MDSCR_EL1", "Monitor Debug System Control Register">>>>,
     <<<<2, 0, <<"c", "1">>, <<"c", "0">>, 0>>, <<"MDRAR_EL1", "Monitor Debug ROM Address Register">>>>,
     <<<<2, 0, <<"c", "1">>, <<"c", "0">>, 4>>, <<"OSLAR_EL1", "OS Lock Access Register">>>>,
     <<<<2, 0, <<"c", "1">>, <<"c", "1">>, 4>>, <<"OSLSR_EL1", "OS Lock Status Register">>>>,
     <<<<2, 0, <<"c", "1">>, <<"c", "3">>, 4>>, <<"OSDLR_EL1", "OS Double Lock Register">>>>,
     <<<<2, 0, <<"c", "1">>, <<"c", "4">>, 4>>, <<"DBGPRCR_EL1", "Debug Power Control Register">>>>,
     <<<<2, 0, <<"c", "7">>, <<"c", "8">>, 6>>, <<"DBGCLAIMSET_EL1", "Debug Claim Tag Set register">>>>,
     <<<<2, 0, <<"c", "7">>, <<"c", "9">>, 6>>, <<"DBGCLAIMCLR_EL1", "Debug Claim Tag Clear register">>>>,
     <<<<2, 0, <<"c", "7">>, <<"c", "14">>, 6>>, <<"DBGAUTHSTATUS_EL1", "Debug Authentication Status register">>>>,
     <<<<3, 0, <<"c", "10">>, <<"c", "4">>, 3>>, <<"LORC_EL1", "LORegion Control (EL1)">>>>,
     <<<<3, 0, <<"c", "10">>, <<"c", "4">>, 0>>, <<"LORSA_EL1", "LORegion Start Address (EL1)">>>>,
     <<<<3, 0, <<"c", "10">>, <<"c", "4">>, 1>>, <<"LOREA_EL1", "LORegion End Address (EL1)">>>>,
     <<<<3, 0, <<"c", "10">>, <<"c", "4">>, 2>>, <<"LORN_EL1", "LORegion Number (EL1)">>>>,
     <<<<3, 0, <<"c", "10">>, <<"c", "4">>, 7>>, <<"LORID_EL1", "LORegionID (EL1)">>>>,
     <<<<3, 3, <<"c", "14">>, <<"c", "15">>, 7>>, <<"PMCCFILTR_EL0", "Performance Monitors Cycle Count Filter Register">>>>,
     <<<<3, 3, <<"c", "9">>, <<"c", "13">>, 0>>, <<"PMCCNTR_EL0", "Performance Monitors Cycle Count Register">>>>,
     <<<<3, 3, <<"c", "9">>, <<"c", "12">>, 6>>, <<"PMCEID0_EL0", "Performance Monitors Common Event Identification register 0">>>>,
     <<<<3, 3, <<"c", "9">>, <<"c", "12">>, 7>>, <<"PMCEID1_EL0", "Performance Monitors Common Event Identification register 1">>>>,
     <<<<3, 3, <<"c", "9">>, <<"c", "12">>, 2>>, <<"PMCNTENCLR_EL0", "Performance Monitors Count Enable Clear register">>>>,
     <<<<3, 3, <<"c", "9">>, <<"c", "12">>, 1>>, <<"PMCNTENSET_EL0", "Performance Monitors Count Enable Set register">>>>,
     <<<<3, 3, <<"c", "9">>, <<"c", "12">>, 0>>, <<"PMCR_EL0", "Performance Monitors Control Register">>>>,
     <<<<3, 3, <<"c", "14">>, <<"c", "8">>, 0>>, <<"PMEVCNTR0_EL0", "Performance Monitors Event Count Register 0">>>>,
     <<<<3, 3, <<"c", "14">>, <<"c", "8">>, 1>>, <<"PMEVCNTR1_EL0", "Performance Monitors Event Count Register 1">>>>,
     <<<<3, 3, <<"c", "14">>, <<"c", "8">>, 2>>, <<"PMEVCNTR2_EL0", "Performance Monitors Event Count Register 2">>>>,
     <<<<3, 3, <<"c", "14">>, <<"c", "8">>, 3>>, <<"PMEVCNTR3_EL0", "Performance Monitors Event Count Register 3">>>>,
     <<<<3, 3, <<"c", "14">>, <<"c", "8">>, 4>>, <<"PMEVCNTR4_EL0", "Performance Monitors Event Count Register 4">>>>,
     <<<<3, 3, <<"c", "14">>, <<"c", "8">>, 5>>, <<"PMEVCNTR5_EL0", "Performance Monitors Event Count Register 5">>>>,
     <<<<3, 3, <<"c", "14">>, <<"c", "8">>, 6>>, <<"PMEVCNTR6_EL0", "Performance Monitors Event Count Register 6">>>>,
     <<<<3, 3, <<"c", "14">>, <<"c", "8">>, 7>>, <<"PMEVCNTR7_EL0", "Performance Monitors Event Count Register 7">>>>,
     <<<<3, 3, <<"c", "14">>, <<"c", "9">>, 0>>, <<"PMEVCNTR8_EL0", "Performance Monitors Event Count Register 8">>>>,
     <<<<3, 3, <<"c", "14">>, <<"c", "9">>, 1>>, <<"PMEVCNTR9_EL0", "Performance Monitors Event Count Register 9">>>>,
     <<<<3, 3, <<"c", "14">>, <<"c", "9">>, 2>>, <<"PMEVCNTR10_EL0", "Performance Monitors Event Count Register 10">>>>,
     <<<<3, 3, <<"c", "14">>, <<"c", "9">>, 3>>, <<"PMEVCNTR11_EL0", "Performance Monitors Event Count Register 11">>>>,
     <<<<3, 3, <<"c", "14">>, <<"c", "9">>, 4>>, <<"PMEVCNTR12_EL0", "Performance Monitors Event Count Register 12">>>>,
     <<<<3, 3, <<"c", "14">>, <<"c", "9">>, 5>>, <<"PMEVCNTR13_EL0", "Performance Monitors Event Count Register 13">>>>,
     <<<<3, 3, <<"c", "14">>, <<"c", "9">>, 6>>, <<"PMEVCNTR14_EL0", "Performance Monitors Event Count Register 14">>>>,
     <<<<3, 3, <<"c", "14">>, <<"c", "9">>, 7>>, <<"PMEVCNTR15_EL0", "Performance Monitors Event Count Register 15">>>>,
     <<<<3, 3, <<"c", "14">>, <<"c", "10">>, 0>>, <<"PMEVCNTR16_EL0", "Performance Monitors Event Count Register 16">>>>,
     <<<<3, 3, <<"c", "14">>, <<"c", "10">>, 1>>, <<"PMEVCNTR17_EL0", "Performance Monitors Event Count Register 17">>>>,
     <<<<3, 3, <<"c", "14">>, <<"c", "10">>, 2>>, <<"PMEVCNTR18_EL0", "Performance Monitors Event Count Register 18">>>>,
     <<<<3, 3, <<"c", "14">>, <<"c", "10">>, 3>>, <<"PMEVCNTR19_EL0", "Performance Monitors Event Count Register 19">>>>,
     <<<<3, 3, <<"c", "14">>, <<"c", "10">>, 4>>, <<"PMEVCNTR20_EL0", "Performance Monitors Event Count Register 20">>>>,
     <<<<3, 3, <<"c", "14">>, <<"c", "10">>, 5>>, <<"PMEVCNTR21_EL0", "Performance Monitors Event Count Register 21">>>>,
     <<<<3, 3, <<"c", "14">>, <<"c", "10">>, 6>>, <<"PMEVCNTR22_EL0", "Performance Monitors Event Count Register 22">>>>,
     <<<<3, 3, <<"c", "14">>, <<"c", "10">>, 7>>, <<"PMEVCNTR23_EL0", "Performance Monitors Event Count Register 23">>>>,
     <<<<3, 3, <<"c", "14">>, <<"c", "11">>, 0>>, <<"PMEVCNTR24_EL0", "Performance Monitors Event Count Register 24">>>>,
     <<<<3, 3, <<"c", "14">>, <<"c", "11">>, 1>>, <<"PMEVCNTR25_EL0", "Performance Monitors Event Count Register 25">>>>,
     <<<<3, 3, <<"c", "14">>, <<"c", "11">>, 2>>, <<"PMEVCNTR26_EL0", "Performance Monitors Event Count Register 26">>>>,
     <<<<3, 3, <<"c", "14">>, <<"c", "11">>, 3>>, <<"PMEVCNTR27_EL0", "Performance Monitors Event Count Register 27">>>>,
     <<<<3, 3, <<"c", "14">>, <<"c", "11">>, 4>>, <<"PMEVCNTR28_EL0", "Performance Monitors Event Count Register 28">>>>,
     <<<<3, 3, <<"c", "14">>, <<"c", "11">>, 5>>, <<"PMEVCNTR29_EL0", "Performance Monitors Event Count Register 29">>>>,
     <<<<3, 3, <<"c", "14">>, <<"c", "11">>, 6>>, <<"PMEVCNTR30_EL0", "Performance Monitors Event Count Register 30">>>>,
     <<<<3, 3, <<"c", "14">>, <<"c", "12">>, 0>>, <<"PMEVTYPER0_EL0", "Performance Monitors Event Type Register 0">>>>,
     <<<<3, 3, <<"c", "14">>, <<"c", "12">>, 1>>, <<"PMEVTYPER1_EL0", "Performance Monitors Event Type Register 1">>>>,
     <<<<3, 3, <<"c", "14">>, <<"c", "12">>, 2>>, <<"PMEVTYPER2_EL0", "Performance Monitors Event Type Register 2">>>>,
     <<<<3, 3, <<"c", "14">>, <<"c", "12">>, 3>>, <<"PMEVTYPER3_EL0", "Performance Monitors Event Type Register 3">>>>,
     <<<<3, 3, <<"c", "14">>, <<"c", "12">>, 4>>, <<"PMEVTYPER4_EL0", "Performance Monitors Event Type Register 4">>>>,
     <<<<3, 3, <<"c", "14">>, <<"c", "12">>, 5>>, <<"PMEVTYPER5_EL0", "Performance Monitors Event Type Register 5">>>>,
     <<<<3, 3, <<"c", "14">>, <<"c", "12">>, 6>>, <<"PMEVTYPER6_EL0", "Performance Monitors Event Type Register 6">>>>,
     <<<<3, 3, <<"c", "14">>, <<"c", "12">>, 7>>, <<"PMEVTYPER7_EL0", "Performance Monitors Event Type Register 7">>>>,
     <<<<3, 3, <<"c", "14">>, <<"c", "13">>, 0>>, <<"PMEVTYPER8_EL0", "Performance Monitors Event Type Register 8">>>>,
     <<<<3, 3, <<"c", "14">>, <<"c", "13">>, 1>>, <<"PMEVTYPER9_EL0", "Performance Monitors Event Type Register 9">>>>,
     <<<<3, 3, <<"c", "14">>, <<"c", "13">>, 2>>, <<"PMEVTYPER10_EL0", "Performance Monitors Event Type Register 10">>>>,
     <<<<3, 3, <<"c", "14">>, <<"c", "13">>, 3>>, <<"PMEVTYPER11_EL0", "Performance Monitors Event Type Register 11">>>>,
     <<<<3, 3, <<"c", "14">>, <<"c", "13">>, 4>>, <<"PMEVTYPER12_EL0", "Performance Monitors Event Type Register 12">>>>,
     <<<<3, 3, <<"c", "14">>, <<"c", "13">>, 5>>, <<"PMEVTYPER13_EL0", "Performance Monitors Event Type Register 13">>>>,
     <<<<3, 3, <<"c", "14">>, <<"c", "13">>, 6>>, <<"PMEVTYPER14_EL0", "Performance Monitors Event Type Register 14">>>>,
     <<<<3, 3, <<"c", "14">>, <<"c", "13">>, 7>>, <<"PMEVTYPER15_EL0", "Performance Monitors Event Type Register 15">>>>,
     <<<<3, 3, <<"c", "14">>, <<"c", "14">>, 0>>, <<"PMEVTYPER16_EL0", "Performance Monitors Event Type Register 16">>>>,
     <<<<3, 3, <<"c", "14">>, <<"c", "14">>, 1>>, <<"PMEVTYPER17_EL0", "Performance Monitors Event Type Register 17">>>>,
     <<<<3, 3, <<"c", "14">>, <<"c", "14">>, 2>>, <<"PMEVTYPER18_EL0", "Performance Monitors Event Type Register 18">>>>,
     <<<<3, 3, <<"c", "14">>, <<"c", "14">>, 3>>, <<"PMEVTYPER19_EL0", "Performance Monitors Event Type Register 19">>>>,
     <<<<3, 3, <<"c", "14">>, <<"c", "14">>, 4>>, <<"PMEVTYPER20_EL0", "Performance Monitors Event Type Register 20">>>>,
     <<<<3, 3, <<"c", "14">>, <<"c", "14">>, 5>>, <<"PMEVTYPER21_EL0", "Performance Monitors Event Type Register 21">>>>,
     <<<<3, 3, <<"c", "14">>, <<"c", "14">>, 6>>, <<"PMEVTYPER22_EL0", "Performance Monitors Event Type Register 22">>>>,
     <<<<3, 3, <<"c", "14">>, <<"c", "14">>, 7>>, <<"PMEVTYPER23_EL0", "Performance Monitors Event Type Register 23">>>>,
     <<<<3, 3, <<"c", "14">>, <<"c", "15">>, 0>>, <<"PMEVTYPER24_EL0", "Performance Monitors Event Type Register 24">>>>,
     <<<<3, 3, <<"c", "14">>, <<"c", "15">>, 1>>, <<"PMEVTYPER25_EL0", "Performance Monitors Event Type Register 25">>>>,
     <<<<3, 3, <<"c", "14">>, <<"c", "15">>, 2>>, <<"PMEVTYPER26_EL0", "Performance Monitors Event Type Register 26">>>>,
     <<<<3, 3, <<"c", "14">>, <<"c", "15">>, 3>>, <<"PMEVTYPER27_EL0", "Performance Monitors Event Type Register 27">>>>,
     <<<<3, 3, <<"c", "14">>, <<"c", "15">>, 4>>, <<"PMEVTYPER28_EL0", "Performance Monitors Event Type Register 28">>>>,
     <<<<3, 3, <<"c", "14">>, <<"c", "15">>, 5>>, <<"PMEVTYPER29_EL0", "Performance Monitors Event Type Register 29">>>>,
     <<<<3, 3, <<"c", "14">>, <<"c", "15">>, 6>>, <<"PMEVTYPER30_EL0", "Performance Monitors Event Type Register 30">>>>,
     <<<<3, 0, <<"c", "9">>, <<"c", "14">>, 2>>, <<"PMINTENCLR_EL1", "Performance Monitors Interrupt Enable Clear register">>>>,
     <<<<3, 0, <<"c", "9">>, <<"c", "14">>, 1>>, <<"PMINTENSET_EL1", "Performance Monitors Interrupt Enable Set register">>>>,
     <<<<3, 3, <<"c", "9">>, <<"c", "12">>, 3>>, <<"PMOVSCLR_EL0", "Performance Monitors Overflow Flag Status Clear Register">>>>,
     <<<<3, 3, <<"c", "9">>, <<"c", "14">>, 3>>, <<"PMOVSSET_EL0", "Performance Monitors Overflow Flag Status Set register">>>>,
     <<<<3, 3, <<"c", "9">>, <<"c", "12">>, 5>>, <<"PMSELR_EL0", "Performance Monitors Event Counter Selection Register">>>>,
     <<<<3, 3, <<"c", "9">>, <<"c", "12">>, 4>>, <<"PMSWINC_EL0", "Performance Monitors Software Increment register">>>>,
     <<<<3, 3, <<"c", "9">>, <<"c", "14">>, 0>>, <<"PMUSERENR_EL0", "Performance Monitors User Enable Register">>>>,
     <<<<3, 3, <<"c", "9">>, <<"c", "13">>, 2>>, <<"PMXEVCNTR_EL0", "Performance Monitors Selected Event Count Register">>>>,
     <<<<3, 3, <<"c", "9">>, <<"c", "13">>, 1>>, <<"PMXEVTYPER_EL0", "Performance Monitors Selected Event Type Register">>>>,
     <<<<3, 3, <<"c", "14">>, <<"c", "0">>, 0>>, <<"CNTFRQ_EL0", "Counter-timer Frequency register">>>>,
     <<<<3, 4, <<"c", "14">>, <<"c", "1">>, 0>>, <<"CNTHCTL_EL2", "Counter-timer Hypervisor Control register">>>>,
     <<<<3, 4, <<"c", "14">>, <<"c", "2">>, 1>>, <<"CNTHP_CTL_EL2", "Counter-timer Hypervisor Physical Timer Control register">>>>,
     <<<<3, 4, <<"c", "14">>, <<"c", "2">>, 2>>, <<"CNTHP_CVAL_EL2", "Counter-timer Hypervisor Physical Timer CompareValue register">>>>,
     <<<<3, 4, <<"c", "14">>, <<"c", "2">>, 0>>, <<"CNTHP_TVAL_EL2", "Counter-timer Hypervisor Physical Timer TimerValue register">>>>,
     <<<<3, 4, <<"c", "14">>, <<"c", "3">>, 0>>, <<"CNTHV_TVAL_EL2", "Counter-timer Virtual Timer TimerValue register (EL2)">>>>,
     <<<<3, 4, <<"c", "14">>, <<"c", "3">>, 1>>, <<"CNTHV_CTL_EL2", "Counter-timer Virtual Timer Control register (EL2)">>>>,
     <<<<3, 4, <<"c", "14">>, <<"c", "3">>, 2>>, <<"CNTHV_CVAL_EL2", "Counter-timer Virtual Timer CompareValue register (EL2)">>>>,
     <<<<3, 0, <<"c", "14">>, <<"c", "1">>, 0>>, <<"CNTKCTL_EL1", "Counter-timer Hypervisor Control register">>>>,
     <<<<3, 5, <<"c", "14">>, <<"c", "1">>, 0>>, <<"CNTKCTL_EL12", "Counter-timer Kernel Control register">>>>,
     <<<<3, 3, <<"c", "14">>, <<"c", "2">>, 1>>, <<"CNTP_CTL_EL0", "Counter-timer Hypervisor Physical Timer Control register">>>>,
     <<<<3, 5, <<"c", "14">>, <<"c", "2">>, 1>>, <<"CNTP_CTL_EL02", "Counter-timer Physical Timer Control register">>>>,
     <<<<3, 3, <<"c", "14">>, <<"c", "2">>, 2>>, <<"CNTP_CVAL_EL0", "Counter-timer Physical Timer CompareValue register">>>>,
     <<<<3, 5, <<"c", "14">>, <<"c", "2">>, 2>>, <<"CNTP_CVAL_EL02", "Counter-timer Physical Timer CompareValue register">>>>,
     <<<<3, 3, <<"c", "14">>, <<"c", "2">>, 0>>, <<"CNTP_TVAL_EL0", "Counter-timer Physical Timer TimerValue register">>>>,
     <<<<3, 5, <<"c", "14">>, <<"c", "2">>, 0>>, <<"CNTP_TVAL_EL02", "Counter-timer Physical Timer TimerValue register">>>>,
     <<<<3, 3, <<"c", "14">>, <<"c", "0">>, 1>>, <<"CNTPCT_EL0", "Counter-timer Physical Count register">>>>,
     <<<<3, 7, <<"c", "14">>, <<"c", "2">>, 1>>, <<"CNTPS_CTL_EL1", "Counter-timer Physical Secure Timer Control register">>>>,
     <<<<3, 7, <<"c", "14">>, <<"c", "2">>, 2>>, <<"CNTPS_CVAL_EL1", "Counter-timer Physical Secure Timer CompareValue register">>>>,
     <<<<3, 7, <<"c", "14">>, <<"c", "2">>, 0>>, <<"CNTPS_TVAL_EL1", "Counter-timer Physical Secure Timer TimerValue register">>>>,
     <<<<3, 3, <<"c", "14">>, <<"c", "3">>, 1>>, <<"CNTV_CTL_EL0", "Counter-timer Virtual Timer Control register (EL2)">>>>,
     <<<<3, 5, <<"c", "14">>, <<"c", "3">>, 1>>, <<"CNTV_CTL_EL02", "Counter-timer Virtual Timer Control register">>>>,
     <<<<3, 3, <<"c", "14">>, <<"c", "3">>, 2>>, <<"CNTV_CVAL_EL0", "Counter-timer Virtual Timer CompareValue register">>>>,
     <<<<3, 5, <<"c", "14">>, <<"c", "3">>, 2>>, <<"CNTV_CVAL_EL02", "Counter-timer Virtual Timer CompareValue register">>>>,
     <<<<3, 3, <<"c", "14">>, <<"c", "3">>, 0>>, <<"CNTV_TVAL_EL0", "Counter-timer Virtual Timer TimerValue register">>>>,
     <<<<3, 5, <<"c", "14">>, <<"c", "3">>, 0>>, <<"CNTV_TVAL_EL02", "Counter-timer Virtual Timer TimerValue register">>>>,
     <<<<3, 3, <<"c", "14">>, <<"c", "0">>, 2>>, <<"CNTVCT_EL0", "Counter-timer Virtual Count register">>>>,
     <<<<3, 4, <<"c", "14">>, <<"c", "0">>, 3>>, <<"CNTVOFF_EL2", "Counter-timer Virtual Offset register">>>>,
     <<<<3, 0, <<"c", "12">>, <<"c", "8">>, 4>>, <<"ICC_AP0R0_EL1", "Interrupt Controller Active Priorities Group 0 Register 0">>>>,
     <<<<3, 0, <<"c", "12">>, <<"c", "8">>, 5>>, <<"ICC_AP0R1_EL1", "Interrupt Controller Active Priorities Group 0 Register 1">>>>,
     <<<<3, 0, <<"c", "12">>, <<"c", "8">>, 6>>, <<"ICC_AP0R2_EL1", "Interrupt Controller Active Priorities Group 0 Register 2">>>>,
     <<<<3, 0, <<"c", "12">>, <<"c", "8">>, 7>>, <<"ICC_AP0R3_EL1", "Interrupt Controller Active Priorities Group 0 Register 3">>>>,
     <<<<3, 0, <<"c", "12">>, <<"c", "9">>, 0>>, <<"ICC_AP1R0_EL1", "Interrupt Controller Active Priorities Group 1 Register 0">>>>,
     <<<<3, 0, <<"c", "12">>, <<"c", "9">>, 1>>, <<"ICC_AP1R1_EL1", "Interrupt Controller Active Priorities Group 1 Register 1">>>>,
     <<<<3, 0, <<"c", "12">>, <<"c", "9">>, 2>>, <<"ICC_AP1R2_EL1", "Interrupt Controller Active Priorities Group 1 Register 2">>>>,
     <<<<3, 0, <<"c", "12">>, <<"c", "9">>, 3>>, <<"ICC_AP1R3_EL1", "Interrupt Controller Active Priorities Group 1 Register 3">>>>,
     <<<<3, 0, <<"c", "12">>, <<"c", "11">>, 6>>, <<"ICC_ASGI1R_EL1", "Interrupt Controller Alias Software Generated Interrupt Group 1 Register">>>>,
     <<<<3, 0, <<"c", "12">>, <<"c", "8">>, 3>>, <<"ICC_BPR0_EL1", "Interrupt Controller Binary Point Register 0">>>>,
     <<<<3, 0, <<"c", "12">>, <<"c", "12">>, 3>>, <<"ICC_BPR1_EL1", "Interrupt Controller Binary Point Register 1">>>>,
     <<<<3, 0, <<"c", "12">>, <<"c", "12">>, 4>>, <<"ICC_CTLR_EL1", "Interrupt Controller Virtual Control Register">>>>,
     <<<<3, 6, <<"c", "12">>, <<"c", "12">>, 4>>, <<"ICC_CTLR_EL3", "Interrupt Controller Control Register (EL3)">>>>,
     <<<<3, 0, <<"c", "12">>, <<"c", "11">>, 1>>, <<"ICC_DIR_EL1", "Interrupt Controller Deactivate Virtual Interrupt Register">>>>,
     <<<<3, 0, <<"c", "12">>, <<"c", "8">>, 1>>, <<"ICC_EOIR0_EL1", "Interrupt Controller End Of Interrupt Register 0">>>>,
     <<<<3, 0, <<"c", "12">>, <<"c", "12">>, 1>>, <<"ICC_EOIR1_EL1", "Interrupt Controller End Of Interrupt Register 1">>>>,
     <<<<3, 0, <<"c", "12">>, <<"c", "8">>, 2>>, <<"ICC_HPPIR0_EL1", "Interrupt Controller Virtual Highest Priority Pending Interrupt Register 0">>>>,
     <<<<3, 0, <<"c", "12">>, <<"c", "12">>, 2>>, <<"ICC_HPPIR1_EL1", "Interrupt Controller Virtual Highest Priority Pending Interrupt Register 1">>>>,
     <<<<3, 0, <<"c", "12">>, <<"c", "8">>, 0>>, <<"ICC_IAR0_EL1", "Interrupt Controller Virtual Interrupt Acknowledge Register 0">>>>,
     <<<<3, 0, <<"c", "12">>, <<"c", "12">>, 0>>, <<"ICC_IAR1_EL1", "Interrupt Controller Interrupt Acknowledge Register 1">>>>,
     <<<<3, 0, <<"c", "12">>, <<"c", "12">>, 6>>, <<"ICC_IGRPEN0_EL1", "Interrupt Controller Virtual Interrupt Group 0 Enable register">>>>,
     <<<<3, 0, <<"c", "12">>, <<"c", "12">>, 7>>, <<"ICC_IGRPEN1_EL1", "Interrupt Controller Interrupt Group 1 Enable register">>>>,
     <<<<3, 6, <<"c", "12">>, <<"c", "12">>, 7>>, <<"ICC_IGRPEN1_EL3", "Interrupt Controller Interrupt Group 1 Enable register (EL3)">>>>,
     <<<<3, 0, <<"c", "4">>, <<"c", "6">>, 0>>, <<"ICC_PMR_EL1", "Interrupt Controller Interrupt Priority Mask Register">>>>,
     <<<<3, 0, <<"c", "12">>, <<"c", "11">>, 3>>, <<"ICC_RPR_EL1", "Interrupt Controller Running Priority Register">>>>,
     <<<<3, 0, <<"c", "12">>, <<"c", "11">>, 0>>, <<"ICC_SEIEN_EL1", "Interrupt Controller System Error Interrupt Enable Register">>>>,
     <<<<3, 0, <<"c", "12">>, <<"c", "11">>, 7>>, <<"ICC_SGI0R_EL1", "Interrupt Controller Software Generated Interrupt Group 0 Register">>>>,
     <<<<3, 0, <<"c", "12">>, <<"c", "11">>, 5>>, <<"ICC_SGI1R_EL1", "Interrupt Controller Software Generated Interrupt Group 1 Register">>>>,
     <<<<3, 0, <<"c", "12">>, <<"c", "12">>, 5>>, <<"ICC_SRE_EL1", "Interrupt Controller System Register Enable register (EL1)">>>>,
     <<<<3, 4, <<"c", "12">>, <<"c", "9">>, 5>>, <<"ICC_SRE_EL2", "Interrupt Controller System Register Enable register (EL2)">>>>,
     <<<<3, 6, <<"c", "12">>, <<"c", "12">>, 5>>, <<"ICC_SRE_EL3", "Interrupt Controller System Register Enable register (EL3)">>>>,
     <<<<3, 4, <<"c", "12">>, <<"c", "8">>, 0>>, <<"ICH_AP0R0_EL2", "Interrupt Controller Hyp Active Priorities Group 0 Register 0">>>>,
     <<<<3, 4, <<"c", "12">>, <<"c", "8">>, 1>>, <<"ICH_AP0R1_EL2", "Interrupt Controller Hyp Active Priorities Group 0 Register 1">>>>,
     <<<<3, 4, <<"c", "12">>, <<"c", "8">>, 2>>, <<"ICH_AP0R2_EL2", "Interrupt Controller Hyp Active Priorities Group 0 Register 2">>>>,
     <<<<3, 4, <<"c", "12">>, <<"c", "8">>, 3>>, <<"ICH_AP0R3_EL2", "Interrupt Controller Hyp Active Priorities Group 0 Register 3">>>>,
     <<<<3, 4, <<"c", "12">>, <<"c", "9">>, 0>>, <<"ICH_AP1R0_EL2", "Interrupt Controller Hyp Active Priorities Group 1 Register 0">>>>,
     <<<<3, 4, <<"c", "12">>, <<"c", "9">>, 1>>, <<"ICH_AP1R1_EL2", "Interrupt Controller Hyp Active Priorities Group 1 Register 1">>>>,
     <<<<3, 4, <<"c", "12">>, <<"c", "9">>, 2>>, <<"ICH_AP1R2_EL2", "Interrupt Controller Hyp Active Priorities Group 1 Register 2">>>>,
     <<<<3, 4, <<"c", "12">>, <<"c", "9">>, 3>>, <<"ICH_AP1R3_EL2", "Interrupt Controller Hyp Active Priorities Group 1 Register 3">>>>,
     <<<<3, 4, <<"c", "12">>, <<"c", "11">>, 3>>, <<"ICH_EISR_EL2", "Interrupt Controller End of Interrupt Status Register">>>>,
     <<<<3, 4, <<"c", "12">>, <<"c", "11">>, 5>>, <<"ICH_ELSR_EL2", "Interrupt Controller Empty List Register Status Register">>>>,
     <<<<3, 4, <<"c", "12">>, <<"c", "11">>, 0>>, <<"ICH_HCR_EL2", "Interrupt Controller Hyp Control Register">>>>,
     <<<<3, 4, <<"c", "12">>, <<"c", "12">>, 0>>, <<"ICH_LR0_EL2", "Interrupt Controller List Register 0">>>>,
     <<<<3, 4, <<"c", "12">>, <<"c", "12">>, 1>>, <<"ICH_LR1_EL2", "Interrupt Controller List Register 1">>>>,
     <<<<3, 4, <<"c", "12">>, <<"c", "12">>, 2>>, <<"ICH_LR2_EL2", "Interrupt Controller List Register 2">>>>,
     <<<<3, 4, <<"c", "12">>, <<"c", "12">>, 3>>, <<"ICH_LR3_EL2", "Interrupt Controller List Register 3">>>>,
     <<<<3, 4, <<"c", "12">>, <<"c", "12">>, 4>>, <<"ICH_LR4_EL2", "Interrupt Controller List Register 4">>>>,
     <<<<3, 4, <<"c", "12">>, <<"c", "12">>, 5>>, <<"ICH_LR5_EL2", "Interrupt Controller List Register 5">>>>,
     <<<<3, 4, <<"c", "12">>, <<"c", "12">>, 6>>, <<"ICH_LR6_EL2", "Interrupt Controller List Register 6">>>>,
     <<<<3, 4, <<"c", "12">>, <<"c", "12">>, 7>>, <<"ICH_LR7_EL2", "Interrupt Controller List Register 7">>>>,
     <<<<3, 4, <<"c", "12">>, <<"c", "13">>, 0>>, <<"ICH_LR8_EL2", "Interrupt Controller List Register 8">>>>,
     <<<<3, 4, <<"c", "12">>, <<"c", "13">>, 1>>, <<"ICH_LR9_EL2", "Interrupt Controller List Register 9">>>>,
     <<<<3, 4, <<"c", "12">>, <<"c", "13">>, 2>>, <<"ICH_LR10_EL2", "Interrupt Controller List Register 10">>>>,
     <<<<3, 4, <<"c", "12">>, <<"c", "13">>, 3>>, <<"ICH_LR11_EL2", "Interrupt Controller List Register 11">>>>,
     <<<<3, 4, <<"c", "12">>, <<"c", "13">>, 4>>, <<"ICH_LR12_EL2", "Interrupt Controller List Register 12">>>>,
     <<<<3, 4, <<"c", "12">>, <<"c", "13">>, 5>>, <<"ICH_LR13_EL2", "Interrupt Controller List Register 13">>>>,
     <<<<3, 4, <<"c", "12">>, <<"c", "13">>, 6>>, <<"ICH_LR14_EL2", "Interrupt Controller List Register 14">>>>,
     <<<<3, 4, <<"c", "12">>, <<"c", "13">>, 7>>, <<"ICH_LR15_EL2", "Interrupt Controller List Register 15">>>>,
     <<<<3, 4, <<"c", "12">>, <<"c", "11">>, 2>>, <<"ICH_MISR_EL2", "Interrupt Controller Maintenance Interrupt State Register">>>>,
     <<<<3, 4, <<"c", "12">>, <<"c", "11">>, 7>>, <<"ICH_VMCR_EL2", "Interrupt Controller Virtual Machine Control Register">>>>,
     <<<<3, 4, <<"c", "12">>, <<"c", "9">>, 4>>, <<"ICH_VSEIR_EL2", "Interrupt Controller Virtual System Error Interrupt Register">>>>,
     <<<<3, 4, <<"c", "12">>, <<"c", "11">>, 1>>, <<"ICH_VTR_EL2", "Interrupt Controller VGIC Type Register">>>> >>

\* COPROC_FIELDS: items <<short name, items <<bit index, <<abbreviation, name>> >> >>.
COPROC_FIELDS ==
  << <<"FPSCR",
       << <<0, <<"IOC", "Invalid Operation exception">>>>,
          <<1, <<"DZC", "Division by Zero exception">>>>,
          <<2, <<"OFC", "Overflow exception">>>>,
          <<3, <<"UFC", "Underflow exception">>>>,
          <<4, <<"IXC", "Inexact exception">>>>,
          <<7, <<"IDC", "Input Denormal exception">>>>,
          <<19, <<"FZ16", "Flush-to-zero mode on half-precision instructions">>>>,
          <<24, <<"FZ", "Flush-to-zero mode">>>>,
          <<25, <<"DN", "Default NaN mode">>>>,
          <<26, <<"AHP", "Alternative Half-Precision">>>>,
          <<27, <<"QC", "Saturation">>>>,
          <<28, <<"V", "Overflow flag">>>>,
          <<29, <<"C", "Carry flag">>>>,
          <<30, <<"Z", "Zero flag">>>>,
          <<31, <<"N", "Negative flag">>>> >> >>,
     <<"HCR",
       << <<0, <<"VM", "Virtualization MMU enable">>>>,
          <<1, <<"SWIO", "Set/Way Invalidation Override">>>>,
          <<2, <<"PTW", "Protected Table Walk">>>>,
          <<3, <<"FMO", "FIQ Mask Override">>>>,
          <<4, <<"IMO", "IRQ Mask Override">>>>,
          <<5, <<"AMO", "Asynchronous Abort Mask Override">>>>,
          <<6, <<"VE", "Virtual FIQ exception">>>>,
          <<7, <<"VI", "Virtual IRQ exception">>>>,
          <<8, <<"VA", "Virtual Asynchronous Abort exception">>>>,
          <<9, <<"FB", "Force Broadcast">>>>,
          <<10, <<"BSU_0", "Barrier Shareability Upgrade">>>>,
          <<11, <<"BSU_1", "Barrier Shareability Upgrade">>>>,
          <<12, <<"DC", "Default cacheable">>>>,
          <<13, <<"TWI", "Trap WFI">>>>,
          <<14, <<"TWE", "Trap WFE">>>>,
          <<15, <<"TID0", "Trap ID Group 0">>>>,
          <<16, <<"TID1", "Trap ID Group 1">>>>,
          <<17, <<"TID2", "Trap ID Group 2">>>>,
          <<18, <<"TID3", "Trap ID Group 3">>>>,
          <<19, <<"TSC", "Trap SMC instruction">>>>,
          <<20, <<"TIDCP", "Trap Implementation Dependent functionality">>>>,
          <<21, <<"TAC", "Trap ACTLR accesses">>>>,
          <<22, <<"TSW", "Trap Data/Unified Cache maintenance operations by Set/Way">>>>,
          <<23, <<"TPC", "Trap Data/Unified Cache maintenance operations to Point of Coherency">>>>,
          <<24, <<"TPU", "Trap Cache maintenance instructions to Point of Unification">>>>,
          <<25, <<"TTLB", "Trap TLB maintenance instructions">>>>,
          <<26, <<"TVM", "Trap Virtual Memory controls">>>>,
          <<27, <<"TGE", "Trap General Exceptions">>>>,
          <<29, <<"HCD", "Hypervisor Call Disable">>>>,
          <<30, <<"TRVM", "Trap Read of Virtual Memory controls">>>> >> >>,
     <<"HCR2",
       << <<0, <<"CD", "Stage 2 Data cache disable">>>>,
          <<1, <<"ID", "Stage 2 Instruction cache disable">>>>,
          <<4, <<"TERR", "Trap Error record accesses">>>>,
          <<5, <<"TEA", "Route synchronous External Abort exceptions to EL2">>>>,
          <<6, <<"MIOCNCE", "Mismatched Inner/Outer Cacheable Non-Coherency Enable">>>> >> >>,
     <<"SCR",
       << <<0, <<"NS", "Non-secure">>>>,
          <<1, <<"IRQ", "IRQ handler">>>>,
          <<2, <<"FIQ", "FIQ handler">>>>,
          <<3, <<"EA", "External Abort handler">>>>,
          <<4, <<"FW", "Can mask Non-secure FIQ">>>>,
          <<5, <<"AW", "Can mask Non-secure external aborts">>>>,
          <<6, <<"nET", "Not Early Termination">>>>,
          <<7, <<"SCD", "Secure Monitor Call disable">>>>,
          <<8, <<"HCE", "Hypervisor Call instruction enable">>>>,
          <<9, <<"SIF", "Secure instruction fetch">>>>,
          <<12, <<"TWI", "Traps WFI instructions to Monitor mode">>>>,
          <<13, <<"TWE", "Traps WFE instructions to Monitor mode">>>>,
          <<15, <<"TERR", "Trap Error record accesses">>>> >> >>,
     <<"SCTLR",
       << <<0, <<"M", "MMU Enable">>>>,
          <<1, <<"A", "Alignment">>>>,
          <<2, <<"C", "Cache Enable">>>>,
          <<3, <<"nTLSMD", "No Trap Load Multiple and Store Multiple to Device-nGRE/Device-nGnRE/Device-nGnRnE memory">>>>,
          <<4, <<"LSMAOE", "Load Multiple and Store Multiple Atomicity and Ordering Enable">>>>,
          <<5, <<"CP15BEN", "System instruction memory barrier enable">>>>,
          <<7, <<"ITD", "IT Disable">>>>,
          <<8, <<"SETEND", "SETEND instruction disable">>>>,
          <<10, <<"SW", "SWP/SWPB Enable">>>>,
          <<11, <<"Z", "Branch Prediction Enable">>>>,
          <<12, <<"I", "Instruction cache Enable">>>>,
          <<13, <<"V", "High exception vectors">>>>,
          <<14, <<"RR", "Round-robin cache">>>>,
          <<16, <<"nTWI", "Traps EL0 execution of WFI instructions to Undefined mode">>>>,
          <<17, <<"HA", "Hardware Access Enable">>>>,
          <<18, <<"nTWE", "Traps EL0 execution of WFE instructions to Undefined mode">>>>,
          <<19, <<"WXN", "Write permission implies XN">>>>,
          <<20, <<"UWXN", "Unprivileged write permission implies PL1 XN">>>>,
          <<21, <<"FI", "Fast Interrupts configuration">>>>,
          <<23, <<"SPAN", "Set Privileged Access Never">>>>,
          <<24, <<"VE", "Interrupt Vectors Enable">>>>,
          <<25, <<"EE", "Exception Endianness">>>>,
          <<27, <<"NMFI", "Non-maskable Fast Interrupts">>>>,
          <<28, <<"TRE", "TEX Remap Enable">>>>,
          <<29, <<"AFE", "Access Flag Enable">>>>,
          <<30, <<"TE", "Thumb Exception Enable">>>> >> >>,
     <<"HSCTLR",
       << <<0, <<"M", "MMU Enable">>>>,
          <<1, <<"A", "Alignment">>>>,
          <<2, <<"C", "Cache Enable">>>>,
          <<3, <<"SA", "Stack alignment check">>>>,
          <<12, <<"I", "Instruction cache Enable">>>>,
          <<19, <<"WXN", "Write permission implies XN">>>>,
          <<25, <<"EE", "Exception Endianness">>>>,
          <<30, <<"TE", "Thumb Exception Enable">>>> >> >>,
     <<"NSACR",
       << <<10, <<"CP10", "CP10 access in the NS state">>>>,
          <<11, <<"CP11", "CP11 access in the NS state">>>>,
          <<14, <<"NSD32DIS", "Disable the NS use of D16-D31 of the VFP register file">>>>,
          <<15, <<"NSASEDIS", "Disable NS Advanced SIMD Extension functionality">>>>,
          <<16, <<"PLE", "NS access to the Preload Engine resources">>>>,
          <<17, <<"TL", "Lockable TLB entries can be allocated in NS state">>>>,
          <<18, <<"NS_SMP", "SMP bit of the Auxiliary Control Register is writable in NS state">>>> >> >> >>

\* SYSREG_FIELDS: items <<short name, items <<bit index, <<abbreviation, name>> >> >>.
SYSREG_FIELDS ==
  << <<"DAIF",
       << <<6, <<"F", "FIQ mask">>>>,
          <<7, <<"I", "IRQ mask">>>>,
          <<8, <<"A", "SError interrupt mask">>>>,
          <<9, <<"D", "Process state D mask">>>> >> >>,
     <<"FPCR",
       << <<8, <<"IOE", "Invalid Operation exception trap enable">>>>,
          <<9, <<"DZE", "Division by Zero exception trap enable">>>>,
          <<10, <<"OFE", "Overflow exception trap enable">>>>,
          <<11, <<"UFE", "Underflow exception trap enable">>>>,
          <<12, <<"IXE", "Inexact exception trap enable">>>>,
          <<15, <<"IDE", "Input Denormal exception trap enable">>>>,
          <<19, <<"FZ16", "Flush-to-zero mode on half-precision instructions">>>>,
          <<24, <<"FZ", "Flush-to-zero-mode">>>>,
          <<25, <<"DN", "Default NaN mode">>>>,
          <<26, <<"AHP", "Alternative Half-Precision">>>> >> >>,
     <<"FPSR",
       << <<0, <<"IOC", "Invalid Operation exception">>>>,
          <<1, <<"DZC", "Division by Zero exception">>>>,
          <<2, <<"OFC", "Overflow exception">>>>,
          <<3, <<"UFC", "Underflow exception">>>>,
          <<4, <<"IXC", "Inexact exception">>>>,
          <<7, <<"IDC", "Input Denormal exception">>>>,
          <<27, <<"QC", "Saturation">>>>,
          <<28, <<"V", "Overflow flag">>>>,
          <<29, <<"C", "Carry flag">>>>,
          <<30, <<"Z", "Zero flag">>>>,
          <<31, <<"N", "Negative flag">>>> >> >>,
     <<"HCR_EL2",
       << <<0, <<"VM", "Virtualization MMU enable">>>>,
          <<1, <<"SWIO", "Set/Way Invalidation Override">>>>,
          <<2, <<"PTW", "Protected Table Walk">>>>,
          <<3, <<"FMO", "FIQ Mask Override">>>>,
          <<4, <<"IMO", "IRQ Mask Override">>>>,
          <<5, <<"AMO", "Asynchronous Abort Mask Override">>>>,
          <<6, <<"VE", "Virtual FIQ exception">>>>,
          <<7, <<"VI", "Virtual IRQ exception">>>>,
          <<8, <<"VA", "Virtual Asynchronous Abort exception">>>>,
          <<9, <<"FB", "Force Broadcast">>>>,
          <<10, <<"BSU_0", "Barrier Shareability Upgrade">>>>,
          <<11, <<"BSU_1", "Barrier Shareability Upgrade">>>>,
          <<12, <<"DC", "Default cacheable">>>>,
          <<13, <<"TWI", "Trap WFI">>>>,
          <<14, <<"TWE", "Trap WFE">>>>,
          <<15, <<"TID0", "Trap ID Group 0">>>>,
          <<16, <<"TID1", "Trap ID Group 1">>>>,
          <<17, <<"TID2", "Trap ID Group 2">>>>,
          <<18, <<"TID3", "Trap ID Group 3">>>>,
          <<19, <<"TSC", "Trap SMC instruction">>>>,
          <<20, <<"TIDCP", "Trap Implementation Dependent functionality">>>>,
          <<21, <<"TAC", "Trap ACTLR accesses">>>>,
          <<22, <<"TSW", "Trap Data/Unified Cache maintenance operations by Set/Way">>>>,
          <<23, <<"TPC", "Trap Data/Unified Cache maintenance operations to Point of Coherency">>>>,
          <<24, <<"TPU", "Trap Cache maintenance instructions to Point of Unification">>>>,
          <<25, <<"TTLB", "Trap TLB maintenance instructions">>>>,
          <<26, <<"TVM", "Trap Virtual Memory controls">>>>,
          <<27, <<"TGE", "Trap General Exceptions">>>>,
          <<29, <<"HCD", "Hypervisor Call Disable">>>>,
          <<30, <<"TRVM", "Trap Read of Virtual Memory controls">>>>,
          <<31, <<"RW", "Lower level is AArch64">>>>,
          <<32, <<"CD", "Stage 2 Data cache disable">>>>,
          <<33, <<"ID", "Stage 2 Instruction cache disable">>>>,
          <<34, <<"E2H", "EL2 Host">>>>,
          <<35, <<"TLOR", "Trap LOR registers">>>>,
          <<36, <<"TERR", "Trap Error record accesses">>>>,
          <<37, <<"TEA", "Route synchronous External Abort exceptions to EL2">>>>,
          <<38, <<"MIOCNCE", "Mismatched Inner/Outer Cacheable Non-Coherency Enable">>>> >> >>,
     <<"SCR_EL3",
       << <<0, <<"NS", "Non-secure">>>>,
          <<1, <<"IRQ", "IRQ handler">>>>,
          <<2, <<"FIQ", "FIQ handler">>>>,
          <<3, <<"EA", "External Abort handler">>>>,
          <<7, <<"SMD", "Secure Monitor Call disable">>>>,
          <<8, <<"HCE", "Hypervisor Call instruction enable">>>>,
          <<9, <<"SIF", "Secure instruction fetch">>>>,
          <<10, <<"RW", "Lower level is AArch64">>>>,
          <<11, <<"ST", "Traps Secure EL1 accesses to the Counter-timer Physical Secure timer registers to EL3, from AArch64 state only.">>>>,
          <<12, <<"TWI", "Traps WFI instructions to Monitor mode">>>>,
          <<13, <<"TWE", "Traps WFE instructions to Monitor mode">>>>,
          <<14, <<"TLOR", "Traps LOR registers">>>>,
          <<15, <<"TERR", "Trap Error record accesses">>>> >> >>,
     <<"SCTLR_EL1",
       << <<0, <<"M", "MMU Enable">>>>,
          <<1, <<"A", "Alignment">>>>,
          <<2, <<"C", "Cache Enable">>>>,
          <<3, <<"SA", "Stack alignment check">>>>,
          <<4, <<"SA0", "Stack alignment check for EL0">>>>,
          <<5, <<"CP15BEN", "System instruction memory barrier enable">>>>,
          <<6, <<"THEE", "T32EE enable">>>>,
          <<7, <<"ITD", "IT Disable">>>>,
          <<8, <<"SED", "SETEND instruction disable">>>>,
          <<9, <<"UMA", "User Mask Access">>>>,
          <<12, <<"I", "Instruction cache Enable">>>>,
          <<14, <<"DZE", "Access to DC ZVA instruction at EL0">>>>,
          <<15, <<"UCT", "Access to CTR_EL0 to EL0">>>>,
          <<16, <<"nTWI", "Traps EL0 execution of WFI instructions to Undefined mode">>>>,
          <<18, <<"nTWE", "Traps EL0 execution of WFE instructions to Undefined mode">>>>,
          <<19, <<"WXN", "Write permission implies XN">>>>,
          <<24, <<"E0E", "Endianess of explicit data accesses at EL0">>>>,
          <<25, <<"EE", "Exception Endianness">>>>,
          <<26, <<"UCI", "Enable EL0 access to DC CVAU, DC CIVAC, DC CVAC and DC IVAU instructions">>>> >> >>,
     <<"SCTLR_EL2",
       << <<0, <<"M", "MMU Enable">>>>,
          <<1, <<"A", "Alignment">>>>,
          <<2, <<"C", "Cache Enable">>>>,
          <<3, <<"SA", "Stack alignment check">>>>,
          <<12, <<"I", "Instruction cache Enable">>>>,
          <<19, <<"WXN", "Write permission implies XN">>>>,
          <<25, <<"EE", "Exception Endianness">>>> >> >>,
     <<"SCTLR_EL3",
       << <<0, <<"M", "MMU Enable">>>>,
          <<1, <<"A", "Alignment">>>>,
          <<2, <<"C", "Cache Enable">>>>,
          <<3, <<"SA", "Stack alignment check">>>>,
          <<12, <<"I", "Instruction cache Enable">>>>,
          <<19, <<"WXN", "Write permission implies XN">>>>,
          <<25, <<"EE", "Exception Endianness">>>> >> >> >>

ARM_MODES ==
  << <<16, "User">>,
     <<17, "FIQ">>,
     <<18, "IRQ">>,
     <<19, "Supervisor">>,
     <<22, "Monitor">>,
     <<23, "Abort">>,
     <<27, "Undefined">>,
     <<31, "System">> >>

\* a table with DAIFSet and DAIFClr exchanged
PSTATE_OPS_exchanged ==
  << <<5, <<"S", "P", "S", "e", "l">>>>,
     <<6, <<"D", "A", "I", "F", "C", "l", "r">>>>,
     <<7, <<"D", "A", "I", "F", "S", "e", "t">>>> >>

\* The operation names are sliced by the decoder, so they are character sequences.
PSTATE_OPS ==
  << <<5, <<"S", "P", "S", "e", "l">>>>,
     <<6, <<"D", "A", "I", "F", "S", "e", "t">>>>,
     <<7, <<"D", "A", "I", "F", "C", "l", "r">>>> >>

\* ---------------------------------------------------------------------------
\* Python primitives used by the script
\* ---------------------------------------------------------------------------

\* s[a:b] on a sequence (0-based, end exclusive, clipped to the length).
Slice(s, a, b) ==
  SubSeq(s, a + 1, IF b < Len(s) THEN b ELSE Len(s))

\* s[-1:] : the last element as a sequence, empty for the empty sequence.
LastSlice(s) ==
  IF Len(s) = 0 THEN <<>> ELSE <<s[Len(s)]>>

\* dict.get(key, None) on the items of a dict display: the value of the last
\* item whose key equals key structurally, <<>> (None) when there is none.
DictGet(items, key) ==
  LET hits == { i \in 1..Len(items) : items[i][1] = key }
  IN  IF hits = {} THEN <<>>
      ELSE items[CHOOSE i \in hits : \A j \in hits : j <= i][2]

\* text.split(','): the maximal runs of tokens between "," tokens.
RECURSIVE Split(_)
Split(text) ==
  LET commas == { i \in 1..Len(text) : text[i] = "," }
  IN  IF commas = {} THEN <<text>>
      ELSE LET c == CHOOSE i \in commas : \A j \in commas : i <= j
           IN  <<SubSeq(text, 1, c - 1)>> \o Split(SubSeq(text, c + 1, Len(text)))

\* sep.join(parts) for a sequence of strings.
RECURSIVE Join(_, _)
Join(parts, sep) ==
  IF Len(parts) = 0 THEN <<>>
  ELSE IF Len(parts) = 1 THEN <<parts[1]>>
  ELSE <<parts[1], sep>> \o Join(Tail(parts), sep)

\* fmt % args, fmt a sequence of literal pieces and "%s" conversions.  The
\* result is <<"TypeError">> when the conversions and the arguments differ in
\* number.
RECURSIVE Format(_, _)
Format(fmt, args) ==
  IF Len(fmt) = 0 THEN (IF Len(args) = 0 THEN <<>> ELSE <<"TypeError">>)
  ELSE IF fmt[1] = "%s"
       THEN IF Len(args) = 0 THEN <<"TypeError">>
            ELSE LET rest == Format(Tail(fmt), Tail(args))
                 IN  IF rest = <<"TypeError">> THEN rest ELSE <<args[1]>> \o rest
       ELSE LET rest == Format(Tail(fmt), args)
            IN  IF rest = <<"TypeError">> THEN rest ELSE <<fmt[1]>> \o rest

RECURSIVE Pow2(_)
Pow2(n) ==
  IF n = 0 THEN 1 ELSE 2 * Pow2(n - 1)

\* value & (1 << b) is non-zero, for a value and a b below 2^31 and 31
BitSet(value, b) ==
  (value \div Pow2(b)) % 2 = 1

\* Machine words do not fit the checker's integers: a word that is decoded
\* bit by bit is the set of the positions of its set bits.  BitsOf is that set
\* for an operand value in 0 .. 2^31 - 1.
BitsOf(value) ==
  { b \in 0..30 : BitSet(value, b) }

\* extract_bits(bitmap, value): the entries of the bitfield table whose bit
\* index is set in value (value & (1 << b)), in the table's order.
extract_bits(bitmap, value) ==
  LET RECURSIVE pick(_)
      pick(k) ==
        IF k > Len(bitmap) THEN <<>>
        ELSE (IF bitmap[k][1] \in value THEN <<bitmap[k][2]>> ELSE <<>>)
             \o pick(k + 1)
  IN  pick(1)

\* [abbrev for (abbrev, name) in bits] and [name for (abbrev, name) in bits]
Abbrevs(bits) ==
  [k \in 1..Len(bits) |-> bits[k][1]]

Names(bits) ==
  [k \in 1..Len(bits) |-> bits[k][2]]

\* ---------------------------------------------------------------------------
\* State
\* ---------------------------------------------------------------------------

VARIABLES
  procname,      \* get_inf_attr(INF_PROCNAME)
  ptrbits,       \* current_arch_size(): SizeOf("void *") * 8
  current_arch,  \* the module global, "unset" before the entry code assigns it
  insns,         \* the instruction stream of the database, in address order
  cmt,           \* comment of each instruction, set by set_cmt
  color,         \* TRUE once set_color has been called on the instruction
  pc,            \* "entry", "scan", "back", "fwd", "done", "aborted"
  cur,           \* position of the driver's loop over Heads()
  tr_ea,         \* the tracer's local ea
  tr_reg,        \* the tracer's argument reg
  tr_fields,     \* the tracer's argument fields
  warned,        \* TRUE once the entry code has issued its warning
  runs_left,     \* how many more times the user will start the script
  verdict,       \* history of the current run: what is_system_insn returned
  examined,      \* history of the current run: <<anchor, ea>> for each location a trace decoded
  annotated,     \* history of the current run: <<anchor, instruction>> for each comment a trace set
  after_first    \* history: the comments and colors the first run left behind

vars ==
  <<procname, ptrbits, current_arch, insns, cmt, color, pc, cur,
    tr_ea, tr_reg, tr_fields, warned, runs_left, verdict, examined, annotated,
    after_first>>

\* ---------------------------------------------------------------------------
\* The host disassembler's interface (idc / idautils)
\* ---------------------------------------------------------------------------

RECURSIVE Addr(_)
\* address of the i-th instruction of the stream; the stream starts at 0
Addr(i) ==
  IF i <= 1 THEN 0 ELSE Addr(i - 1) + insns[i - 1].size

\* index of the instruction that starts at ea, 0 when no instruction starts there
HeadAt(ea) ==
  IF \E i \in 1..Len(insns) : Addr(i) = ea
  THEN CHOOSE i \in 1..Len(insns) : Addr(i) = ea
  ELSE 0

\* print_insn_mnem(ea): the empty string where no instruction starts
print_insn_mnem(ea) ==
  IF HeadAt(ea) = 0 THEN <<>> ELSE insns[HeadAt(ea)].mnem

\* print_operand(ea, n): the empty string for an absent operand
print_operand(ea, n) ==
  IF HeadAt(ea) = 0 THEN <<>>
  ELSE IF n + 1 <= Len(insns[HeadAt(ea)].ops) THEN insns[HeadAt(ea)].ops[n + 1]
  ELSE <<>>

\* get_operand_value(ea, n): -1 for an absent operand
get_operand_value(ea, n) ==
  IF HeadAt(ea) = 0 THEN -1
  ELSE IF n + 1 <= Len(insns[HeadAt(ea)].vals) THEN insns[HeadAt(ea)].vals[n + 1]
  ELSE -1

\* get_item_size(ea), only ever called on the start of an instruction
get_item_size(ea) ==
  IF HeadAt(ea) = 0 THEN 1 ELSE insns[HeadAt(ea)].size

\* get_wide_dword(ea) of the instruction's own encoding
get_wide_dword(ea) ==
  IF HeadAt(ea) = 0 THEN {} ELSE insns[HeadAt(ea)].dword \cap 0..31

\* a read of the whole 64-bit literal pool slot
get_pool_qword(ea) ==
  IF HeadAt(ea) = 0 THEN {} ELSE insns[HeadAt(ea)].pool

\* get_wide_dword(get_operand_value(ea, 1)): the 32-bit word at the literal
\* pool slot the LDR at ea refers to
get_pool_dword(ea) ==
  IF HeadAt(ea) = 0 THEN {} ELSE insns[HeadAt(ea)].pool \cap 0..31

\* DecodeInstruction(ea).Op1.specflag1
specflag1(ea) ==
  IF HeadAt(ea) = 0 THEN 0 ELSE insns[HeadAt(ea)].specflag1

\* GetDisasm(ea)[3]: the disassembly line starts with the mnemonic, padded
\* with blanks
GetDisasm3(ea) ==
  IF Len(print_insn_mnem(ea)) >= 4 THEN print_insn_mnem(ea)[4] ELSE " "

\* "%d" % n for a 4-bit n
DecStr ==
  <<"0", "1", "2", "3", "4", "5", "6", "7", "8", "9", "10", "11", "12", "13", "14", "15">>

\* "p%d" % n
CpName(n) ==
  <<"p", DecStr[n + 1]>>

\* ---------------------------------------------------------------------------
\* Classifier
\* ---------------------------------------------------------------------------

\* a classifier that compares the whole mnemonic with SUBS and MOVS
is_system_insn_exact(ea) ==
  LET mnem == print_insn_mnem(ea)
  IN  /\ Len(mnem) > 0
      /\ \/ mnem \in SYSTEM_INSN
         \/ /\ Slice(mnem, 0, 3) = <<"L", "D", "M">>
            /\ LastSlice(print_operand(ea, 1)) = <<"^">>
         \/ /\ mnem \in { <<"S", "U", "B", "S">>, <<"M", "O", "V", "S">> }
            /\ print_operand(ea, 0) = <<"PC">>
            /\ print_operand(ea, 1) = <<"LR">>

is_system_insn(ea) ==
  LET mnem == print_insn_mnem(ea)
  IN  /\ Len(mnem) > 0
      /\ \/ mnem \in SYSTEM_INSN
         \/ /\ Slice(mnem, 0, 3) = <<"L", "D", "M">>
            /\ LastSlice(print_operand(ea, 1)) = <<"^">>
         \/ /\ Slice(mnem, 0, 4) \in { <<"S", "U", "B", "S">>, <<"M", "O", "V", "S">> }
            /\ print_operand(ea, 0) = <<"PC">>
            /\ print_operand(ea, 1) = <<"LR">>

\* ---------------------------------------------------------------------------
\* Resolver and handlers.  A handler yields its outcome as a record:
\*   exc     TRUE when the handler raises (IndexError, ValueError, TypeError)
\*   set     TRUE when set_cmt(ea, text, 0) is called on the anchor
\*   text    the comment
\*   trace   "back" / "fwd" when a tracer is entered, else "none"
\*   reg, fields   the tracer's arguments
\* ---------------------------------------------------------------------------

Raise ==
  [exc |-> TRUE, set |-> FALSE, text |-> <<>>, trace |-> "none", reg |-> <<>>, fields |-> <<>>]

NoComment ==
  [exc |-> FALSE, set |-> FALSE, text |-> <<>>, trace |-> "none", reg |-> <<>>, fields |-> <<>>]

SetComment(text) ==
  [exc |-> FALSE, set |-> TRUE, text |-> text, trace |-> "none", reg |-> <<>>, fields |-> <<>>]

\* the clauses joined by " or " on one line
RECURSIVE AliasFormatOneLine(_)
AliasFormatOneLine(n) ==
  IF n <= 0 THEN <<>>
  ELSE IF n = 1 THEN <<"%s", " (", "%s", ")">>
  ELSE <<"%s", " (", "%s", ")", " or ">> \o AliasFormatOneLine(n - 1)

\* "\n or ".join(["%s (%s)"] * n) as format pieces
RECURSIVE AliasFormat(_)
AliasFormat(n) ==
  IF n <= 0 THEN <<>>
  ELSE IF n = 1 THEN <<"%s", " (", "%s", ")">>
  ELSE <<"%s", " (", "%s", ")", "\n or ">> \o AliasFormat(n - 1)

\* an unknown comment that leaves the direction out
UnknownCommentUntagged(access) ==
  <<"[", "?", "] Unknown system register.">>

\* "[%s] Unknown system register." % access
UnknownComment(access) ==
  Format(<<"[", "%s", "] Unknown system register.">>, <<access>>)

\* a choice that traces writes only
TracerOfWritesOnly(access) ==
  IF access = ">" THEN "back" ELSE "none"

\* if access == '>': backtrack_fields(...) else: track_fields(...)
TracerOf(access) ==
  IF access = ">" THEN "back" ELSE "fwd"

\* a resolver that enters a tracer for every single-alias entry, with or
\* without a bitfield table
identify_register_any_table(ea, access, sig, known_regs, cpu_reg, known_fields) ==
  LET desc == DictGet(known_regs, sig)
  IN  IF desc # <<>>
      THEN LET text   == Format(<<"[", "%s", "] ">> \o AliasFormat(Len(desc) \div 2),
                                <<access>> \o desc)
               fields == DictGet(known_fields, desc[1])
           IN  IF text = <<"TypeError">> THEN Raise
               ELSE IF Len(desc) = 2
               THEN [exc |-> FALSE, set |-> TRUE, text |-> text,
                     trace |-> TracerOf(access),
                     reg |-> cpu_reg, fields |-> fields]
               ELSE SetComment(text)
      ELSE SetComment(UnknownComment(access))

identify_register(ea, access, sig, known_regs, cpu_reg, known_fields) ==
  LET desc == DictGet(known_regs, sig)
  IN  IF desc # <<>>
      THEN LET text   == Format(<<"[", "%s", "] ">> \o AliasFormat(Len(desc) \div 2),
                                <<access>> \o desc)
               fields == DictGet(known_fields, desc[1])
           IN  IF text = <<"TypeError">> THEN Raise
               ELSE IF fields # <<>> /\ Len(desc) = 2
               THEN [exc |-> FALSE, set |-> TRUE, text |-> text,
                     trace |-> TracerOf(access),
                     reg |-> cpu_reg, fields |-> fields]
               ELSE SetComment(text)
      ELSE SetComment(UnknownComment(access))

\* the direction taken from the third character
AccessThird(ea) ==
  IF print_insn_mnem(ea)[3] = "R" THEN "<" ELSE ">"

\* '<' when the mnemonic's second character is "R", else '>'
Access(ea) ==
  IF print_insn_mnem(ea)[2] = "R" THEN "<" ELSE ">"

\* a handler that takes the second transfer register for CRm
markup_coproc_reg64_insn_second_part(ea) ==
  LET access == Access(ea)
      op1    == get_operand_value(ea, 0)
      cp     == CpName(specflag1(ea))
      parts  == Split(print_operand(ea, 1))
  IN  IF Len(parts) # 3 THEN Raise
      ELSE LET crm == parts[2]
               sig == <<cp, op1, crm>>
           IN  identify_register(ea, access, sig, COPROC_REGISTERS_64, <<>>, <<>>)

markup_coproc_reg64_insn(ea) ==
  LET access == Access(ea)
      op1    == get_operand_value(ea, 0)
      cp     == CpName(specflag1(ea))
      parts  == Split(print_operand(ea, 1))
  IN  IF Len(parts) # 3 THEN Raise
      ELSE LET crm == parts[3]
               sig == <<cp, op1, crm>>
           IN  identify_register(ea, access, sig, COPROC_REGISTERS_64, <<>>, <<>>)

\* a handler that leaves opcode2 out of the signature
markup_coproc_insn_no_op2(ea) ==
  LET access == Access(ea)
      op1    == get_operand_value(ea, 0)
      parts  == Split(print_operand(ea, 1))
      cp     == CpName(specflag1(ea))
  IN  IF Len(parts) # 3 THEN Raise
      ELSE LET reg == parts[1]
               crn == parts[2]
               crm == parts[3]
               sig == <<cp, crn, op1, crm, 0>>
           IN  identify_register(ea, access, sig, COPROC_REGISTERS, reg, COPROC_FIELDS)

markup_coproc_insn(ea) ==
  LET access == Access(ea)
      op1    == get_operand_value(ea, 0)
      op2    == get_operand_value(ea, 2)
      parts  == Split(print_operand(ea, 1))
      cp     == CpName(specflag1(ea))
  IN  IF Len(parts) # 3 THEN Raise
      ELSE LET reg == parts[1]
               crn == parts[2]
               crm == parts[3]
               sig == <<cp, crn, op1, crm, op2>>
           IN  identify_register(ea, access, sig, COPROC_REGISTERS, reg, COPROC_FIELDS)

\* a signature read from the operands after the register position without
\* wrapping round
aarch64_sys_sig_no_wrap(ea) ==
  LET isread    == print_insn_mnem(ea)[2] = "R"
      reg_pos   == IF isread THEN 0 ELSE 4
      base_args == reg_pos + 1
      op0       == 2 + (IF 19 \in get_wide_dword(ea) THEN 1 ELSE 0)
      op1       == get_operand_value(ea, base_args)
      op2       == get_operand_value(ea, base_args + 3)
      crn       == print_operand(ea, base_args + 1)
      crm       == print_operand(ea, base_args + 2)
  IN  <<op0, op1, crn, crm, op2>>

\* sig of markup_aarch64_sys_insn: ( op0, op1, crn, crm, op2 )
aarch64_sys_sig(ea) ==
  LET isread    == print_insn_mnem(ea)[2] = "R"
      reg_pos   == IF isread THEN 0 ELSE 4
      base_args == (reg_pos + 1) % 5
      op0       == 2 + (IF 19 \in get_wide_dword(ea) THEN 1 ELSE 0)
      op1       == get_operand_value(ea, base_args)
      op2       == get_operand_value(ea, base_args + 3)
      crn       == print_operand(ea, base_args + 1)
      crm       == print_operand(ea, base_args + 2)
  IN  <<op0, op1, crn, crm, op2>>

\* reg of markup_aarch64_sys_insn: print_operand(ea, reg_pos)
aarch64_sys_reg(ea) ==
  print_operand(ea, IF print_insn_mnem(ea)[2] = "R" THEN 0 ELSE 4)

markup_aarch64_sys_insn(ea) ==
  LET isread == print_insn_mnem(ea)[2] = "R"
      access == IF isread THEN "<" ELSE ">"
  IN  identify_register(ea, access, aarch64_sys_sig(ea), SYSTEM_REGISTERS,
                        aarch64_sys_reg(ea), SYSREG_FIELDS)

\* a flag that tests the bit above b
FlagShifted(v, b, on) ==
  IF BitSet(v, b + 1) THEN on ELSE "-"

\* (v & (1 << b)) and on or '-'
Flag(v, b, on) ==
  IF BitSet(v, b) THEN on ELSE "-"

\* dict.get(key, default)
DictGetDefault(items, key, default) ==
  IF \E i \in 1..Len(items) : items[i][1] = key THEN DictGet(items, key) ELSE default

markup_psr_insn(ea) ==
  IF Len(print_operand(ea, 1)) = 0 THEN Raise
  ELSE IF print_operand(ea, 1)[1] = "#"
  THEN LET psr  == get_operand_value(ea, 1)
           mode == DictGetDefault(ARM_MODES, psr % 32, "Unknown")
       IN  SetComment(Format(<<"Set CPSR [", "%s", "%s", "%s", "%s", "%s", "], Mode: ", "%s">>,
                             <<Flag(psr, 9, "E"), Flag(psr, 8, "A"), Flag(psr, 7, "I"),
                               Flag(psr, 6, "F"), Flag(psr, 5, "T"), mode>>))
  ELSE NoComment

markup_pstate_insn(ea) ==
  IF Len(print_operand(ea, 0)) = 0 THEN Raise
  ELSE IF print_operand(ea, 0)[1] # "#" THEN NoComment
  ELSE IF Len(print_operand(ea, 1)) = 0 THEN Raise
  ELSE IF print_operand(ea, 1)[1] # "#" THEN NoComment
  ELSE LET op    == DictGetDefault(PSTATE_OPS, get_operand_value(ea, 0),
                                   <<"U", "n", "k", "n", "o", "w", "n">>)
           value == get_operand_value(ea, 1)
       IN  IF op = <<"S", "P", "S", "e", "l">>
           THEN SetComment(Format(<<"Select PSTATE.SP = SP_EL", "%s">>,
                                  <<(<<"0", "x">>)[(value % 2) + 1]>>))
           ELSE IF Slice(op, 0, 4) = <<"D", "A", "I", "F">>
           THEN SetComment(Slice(op, 4, 7)
                           \o Format(<<" PSTATE.DAIF [", "%s", "%s", "%s", "%s", "]">>,
                                     <<Flag(value, 3, "D"), Flag(value, 2, "A"),
                                       Flag(value, 1, "I"), Flag(value, 0, "F")>>))
           ELSE NoComment

\* a dispatch that tests the MRC/MCR prefix before the MRRC/MCRR prefix
markup_system_insn_mcr_first(ea) ==
  LET mnem == print_insn_mnem(ea)
  IN  IF Slice(mnem, 0, 3) \in { <<"M", "R", "C">>, <<"M", "C", "R">> }
      THEN markup_coproc_insn(ea)
      ELSE IF Slice(mnem, 0, 4) \in { <<"M", "R", "R", "C">>, <<"M", "C", "R", "R">> }
      THEN markup_coproc_reg64_insn(ea)
      ELSE IF current_arch = "aarch32" /\ Slice(mnem, 0, 3) = <<"M", "S", "R">>
      THEN markup_psr_insn(ea)
      ELSE IF current_arch = "aarch64" /\ Slice(mnem, 0, 3) = <<"M", "S", "R">>
              /\ Len(print_operand(ea, 2)) = 0
      THEN markup_pstate_insn(ea)
      ELSE IF current_arch = "aarch64"
              /\ Slice(mnem, 0, 3) \in { <<"M", "S", "R">>, <<"M", "R", "S">> }
      THEN markup_aarch64_sys_insn(ea)
      ELSE NoComment

\* The handler markup_system_insn dispatches to, up to its set_color.
markup_system_insn(ea) ==
  LET mnem == print_insn_mnem(ea)
  IN  IF Slice(mnem, 0, 4) \in { <<"M", "R", "R", "C">>, <<"M", "C", "R", "R">> }
      THEN markup_coproc_reg64_insn(ea)
      ELSE IF Slice(mnem, 0, 3) \in { <<"M", "R", "C">>, <<"M", "C", "R">> }
      THEN markup_coproc_insn(ea)
      ELSE IF current_arch = "aarch32" /\ Slice(mnem, 0, 3) = <<"M", "S", "R">>
      THEN markup_psr_insn(ea)
      ELSE IF current_arch = "aarch64" /\ Slice(mnem, 0, 3) = <<"M", "S", "R">>
              /\ Len(print_operand(ea, 2)) = 0
      THEN markup_pstate_insn(ea)
      ELSE IF current_arch = "aarch64"
              /\ Slice(mnem, 0, 3) \in { <<"M", "S", "R">>, <<"M", "R", "S">> }
      THEN markup_aarch64_sys_insn(ea)
      ELSE NoComment

\* ---------------------------------------------------------------------------
\* Bitfield tracers: one iteration of the while loop, at the location ea the
\* loop has just moved to.  The outcome is a record:
\*   exc   TRUE when the iteration raises (IndexError, ValueError)
\*   set   TRUE when set_cmt(ea, text, 0) is called
\*   cont  TRUE when the loop goes round again, FALSE on break
\* ---------------------------------------------------------------------------

TraceRaise ==
  [exc |-> TRUE, set |-> FALSE, text |-> <<>>, cont |-> FALSE]

TraceBreak ==
  [exc |-> FALSE, set |-> FALSE, text |-> <<>>, cont |-> FALSE]

\* a set_cmt that is never followed by a break
TraceSetContinue(text, cont) ==
  [exc |-> FALSE, set |-> TRUE, text |-> text, cont |-> TRUE]

TraceSet(text, cont) ==
  [exc |-> FALSE, set |-> TRUE, text |-> text, cont |-> cont]

\* a backward tracer that steps over an MCR or MSR instead of stopping at it
backtrack_fields_over_writes(ea, reg, fields) ==
  LET prev_mnem == Slice(print_insn_mnem(ea), 0, 3)
  IN  IF prev_mnem \in { <<"M", "C", "R">>, <<"M", "S", "R">> }
      THEN [exc |-> FALSE, set |-> FALSE, text |-> <<>>, cont |-> TRUE]
      ELSE IF /\ prev_mnem \in { <<"O", "R", "R">>, <<"B", "I", "C">> }
              /\ print_operand(ea, 0) = reg
              /\ Len(print_operand(ea, 2)) > 0
              /\ print_operand(ea, 2)[1] = "#"
      THEN TraceSet(<<IF prev_mnem = <<"O", "R", "R">> THEN "Set bit " ELSE "Clear bit ">>
                    \o Join(Names(extract_bits(fields, BitsOf(get_operand_value(ea, 2)))), ", "),
                    TRUE)
      ELSE TraceBreak

backtrack_fields(ea, reg, fields) ==
  LET prev_mnem == Slice(print_insn_mnem(ea), 0, 3)
  IN  IF /\ prev_mnem \in { <<"L", "D", "R">>, <<"M", "O", "V">>,
                            <<"O", "R", "R">>, <<"B", "I", "C">> }
         /\ print_operand(ea, 0) = reg
      THEN IF prev_mnem = <<"L", "D", "R">>
           THEN IF Len(print_operand(ea, 1)) = 0 THEN TraceRaise
                ELSE IF print_operand(ea, 1)[1] = "="
                THEN TraceSet(<<"Set bits ">>
                              \o Join(Abbrevs(extract_bits(fields, get_pool_dword(ea))), ", "),
                              FALSE)
                ELSE TraceBreak
           ELSE IF prev_mnem = <<"M", "O", "V">>
           THEN IF Len(print_operand(ea, 1)) = 0 THEN TraceRaise
                ELSE IF print_operand(ea, 1)[1] = "#"
                THEN TraceSet(<<"Set bits ">>
                              \o Join(Abbrevs(extract_bits(fields, BitsOf(get_operand_value(ea, 1)))), ", "),
                              FALSE)
                ELSE TraceBreak
           ELSE IF prev_mnem = <<"O", "R", "R">>
           THEN IF Len(print_operand(ea, 2)) = 0 THEN TraceRaise
                ELSE IF print_operand(ea, 2)[1] = "#"
                THEN TraceSet(<<"Set bit ">>
                              \o Join(Names(extract_bits(fields, BitsOf(get_operand_value(ea, 2)))), ", "),
                              TRUE)
                ELSE TraceBreak
           ELSE IF Len(print_operand(ea, 2)) = 0 THEN TraceRaise
                ELSE IF print_operand(ea, 2)[1] = "#"
                THEN TraceSet(<<"Clear bit ">>
                              \o Join(Names(extract_bits(fields, BitsOf(get_operand_value(ea, 2)))), ", "),
                              TRUE)
                ELSE TraceBreak
      ELSE TraceBreak

track_fields(ea, reg, fields) ==
  LET next_mnem == Slice(print_insn_mnem(ea), 0, 3)
  IN  IF next_mnem \in { <<"T", "S", "T">>, <<"T", "E", "Q">> } /\ print_operand(ea, 0) = reg
      THEN IF Len(print_operand(ea, 1)) = 0 THEN TraceRaise
           ELSE IF print_operand(ea, 1)[1] = "#"
           THEN TraceSet(<<"Test bit ">>
                         \o Join(Names(extract_bits(fields, BitsOf(get_operand_value(ea, 1)))), ", "),
                         TRUE)
           ELSE TraceBreak
      ELSE IF next_mnem = <<"A", "N", "D">> /\ print_operand(ea, 1) = reg
      THEN IF Len(print_operand(ea, 2)) = 0 THEN TraceRaise
           ELSE IF print_operand(ea, 2)[1] = "#"
           THEN TraceSet(<<"Test bit ">>
                         \o Join(Names(extract_bits(fields, BitsOf(get_operand_value(ea, 2)))), ", "),
                         TRUE)
           ELSE TraceBreak
      ELSE IF /\ next_mnem = <<"L", "S", "L">> /\ GetDisasm3(ea) = "S"
              /\ print_operand(ea, 1) = reg
      THEN IF Len(print_operand(ea, 2)) = 0 THEN TraceRaise
           ELSE IF print_operand(ea, 2)[1] = "#"
           THEN IF 31 - get_operand_value(ea, 2) < 0 THEN TraceRaise
                ELSE TraceSet(<<"Test bit ">>
                              \o Join(Names(extract_bits(fields,
                                        {31 - get_operand_value(ea, 2)})), ", "),
                              TRUE)
           ELSE TraceBreak
      ELSE TraceBreak

\* ---------------------------------------------------------------------------
\* Actions
\* ---------------------------------------------------------------------------

\* a set_cmt that appends the text to the comment already there
set_cmt_append(comments, i, text) ==
  [comments EXCEPT ![i] = comments[i] \o text]

\* set_cmt(ea, text, 0) on the instruction i that starts at ea: the text
\* replaces the instruction's comment
set_cmt(comments, i, text) ==
  [comments EXCEPT ![i] = text]

\* an architecture choice that takes every width but 32 for AArch64
ArchOfNot32(size) ==
  IF size = 32 THEN "aarch32" ELSE "aarch64"

\* 'aarch64' if current_arch_size() == 64 else 'aarch32'
ArchOf(size) ==
  IF size = 64 THEN "aarch64" ELSE "aarch32"

\* The module's entry code: the processor check and the choice of current_arch.
Entry ==
  /\ pc = "entry"
  /\ IF procname \in {"ARM", "ARMB"}
     THEN /\ current_arch' = ArchOf(ptrbits)
          /\ pc' = "scan"
          /\ UNCHANGED warned
     ELSE /\ warned' = TRUE
          /\ pc' = "done"
          /\ UNCHANGED current_arch
  /\ UNCHANGED <<procname, ptrbits, insns, cmt, color, cur, tr_ea, tr_reg, tr_fields,
                 runs_left, verdict, examined, annotated, after_first>>

\* markup_system_insn returns to run_script: set_color, then the next head.
Return ==
  /\ color' = [color EXCEPT ![cur] = TRUE]
  /\ cur' = cur + 1
  /\ pc' = "scan"
  /\ tr_ea' = 0
  /\ tr_reg' = <<>>
  /\ tr_fields' = <<>>

\* a loop iteration that calls set_color on every head, system instruction or
\* not
ScanStepColorsAll ==
  /\ pc = "scan"
  /\ cur <= Len(insns)
  /\ LET ea == Addr(cur)
     IN  IF ~is_system_insn(ea)
         THEN /\ verdict' = [verdict EXCEPT ![cur] = "other"]
              /\ cur' = cur + 1
              /\ color' = [color EXCEPT ![cur] = TRUE]
              /\ UNCHANGED <<cmt, pc, tr_ea, tr_reg, tr_fields>>
         ELSE LET r == markup_system_insn(ea)
              IN  /\ verdict' = [verdict EXCEPT ![cur] = "system"]
                  /\ IF r.exc
                     THEN /\ pc' = "aborted"
                          /\ UNCHANGED <<cmt, color, cur, tr_ea, tr_reg, tr_fields>>
                     ELSE /\ cmt' = (IF r.set THEN set_cmt(cmt, cur, r.text) ELSE cmt)
                          /\ IF r.trace = "none"
                             THEN Return
                             ELSE /\ pc' = r.trace
                                  /\ tr_ea' = ea
                                  /\ tr_reg' = r.reg
                                  /\ tr_fields' = r.fields
                                  /\ UNCHANGED <<color, cur>>
  /\ UNCHANGED <<procname, ptrbits, current_arch, insns, warned, runs_left, examined,
                 annotated, after_first>>

\* One iteration of run_script's loop over Heads(), up to the entry into a
\* tracer's loop when the handler starts one.
ScanStep ==
  /\ pc = "scan"
  /\ cur <= Len(insns)
  /\ LET ea == Addr(cur)
     IN  IF ~is_system_insn(ea)
         THEN /\ verdict' = [verdict EXCEPT ![cur] = "other"]
              /\ cur' = cur + 1
              /\ UNCHANGED <<cmt, color, pc, tr_ea, tr_reg, tr_fields>>
         ELSE LET r == markup_system_insn(ea)
              IN  /\ verdict' = [verdict EXCEPT ![cur] = "system"]
                  /\ IF r.exc
                     THEN /\ pc' = "aborted"
                          /\ UNCHANGED <<cmt, color, cur, tr_ea, tr_reg, tr_fields>>
                     ELSE /\ cmt' = (IF r.set THEN set_cmt(cmt, cur, r.text) ELSE cmt)
                          /\ IF r.trace = "none"
                             THEN Return
                             ELSE /\ pc' = r.trace
                                  /\ tr_ea' = ea
                                  /\ tr_reg' = r.reg
                                  /\ tr_fields' = r.fields
                                  /\ UNCHANGED <<color, cur>>
  /\ UNCHANGED <<procname, ptrbits, current_arch, insns, warned, runs_left, examined,
                 annotated, after_first>>

\* a tracer's iteration whose set_cmt goes to the anchor instead of the
\* location the tracer is at
TraceStepOnAnchor(ea, r) ==
  /\ examined' = examined \cup {<<cur, ea>>}
  /\ IF r.exc
     THEN /\ pc' = "aborted"
          /\ UNCHANGED <<cmt, color, cur, tr_ea, tr_reg, tr_fields, annotated>>
     ELSE /\ cmt' = (IF r.set THEN set_cmt(cmt, cur, r.text) ELSE cmt)
          /\ annotated' = (IF r.set THEN annotated \cup {<<cur, cur>>} ELSE annotated)
          /\ IF r.cont
             THEN /\ tr_ea' = ea
                  /\ UNCHANGED <<color, cur, pc, tr_reg, tr_fields>>
             ELSE Return
  /\ UNCHANGED <<procname, ptrbits, current_arch, insns, warned, runs_left, verdict,
                 after_first>>

\* One iteration of a tracer's loop with outcome r at location ea.
TraceStep(ea, r) ==
  /\ examined' = examined \cup {<<cur, ea>>}
  /\ IF r.exc
     THEN /\ pc' = "aborted"
          /\ UNCHANGED <<cmt, color, cur, tr_ea, tr_reg, tr_fields, annotated>>
     ELSE /\ cmt' = (IF r.set THEN set_cmt(cmt, HeadAt(ea), r.text) ELSE cmt)
          /\ annotated' = (IF r.set THEN annotated \cup {<<cur, HeadAt(ea)>>} ELSE annotated)
          /\ IF r.cont
             THEN /\ tr_ea' = ea
                  /\ UNCHANGED <<color, cur, pc, tr_reg, tr_fields>>
             ELSE Return
  /\ UNCHANGED <<procname, ptrbits, current_arch, insns, warned, runs_left, verdict,
                 after_first>>

\* backtrack_fields: ea -= get_item_size(ea), then the loop body.
BackStep ==
  /\ pc = "back"
  /\ LET ea == tr_ea - get_item_size(tr_ea)
     IN  TraceStep(ea, backtrack_fields(ea, tr_reg, tr_fields))

\* track_fields: ea += get_item_size(ea), then the loop body.
FwdStep ==
  /\ pc = "fwd"
  /\ LET ea == tr_ea + get_item_size(tr_ea)
     IN  TraceStep(ea, track_fields(ea, tr_reg, tr_fields))

\* Heads() is exhausted: run_script returns.
ScanEnd ==
  /\ pc = "scan"
  /\ cur > Len(insns)
  /\ pc' = "done"
  /\ UNCHANGED <<procname, ptrbits, current_arch, insns, cmt, color, cur, tr_ea, tr_reg,
                 tr_fields, warned, runs_left, verdict, examined, annotated, after_first>>

\* The user starts the script again on the same database once a run is over
\* (finished or stopped by an exception): the module's code runs from its top.
Rerun ==
  /\ pc \in {"done", "aborted"}
  /\ runs_left > 0
  /\ runs_left' = runs_left - 1
  /\ after_first' = (IF after_first.taken THEN after_first
                     ELSE [taken |-> TRUE, cmt |-> cmt, color |-> color])
  /\ pc' = "entry"
  /\ cur' = 1
  /\ tr_ea' = 0
  /\ tr_reg' = <<>>
  /\ tr_fields' = <<>>
  /\ verdict' = [i \in 1..Len(insns) |-> "none"]
  /\ examined' = {}
  /\ annotated' = {}
  /\ UNCHANGED <<procname, ptrbits, current_arch, insns, cmt, color, warned>>

Next ==
  \/ Entry
  \/ ScanStep
  \/ BackStep
  \/ FwdStep
  \/ ScanEnd
  \/ Rerun

\* ---------------------------------------------------------------------------
\* Instruction streams.  An instruction is what the host reports about it:
\*   mnem       print_insn_mnem
\*   ops, vals  print_operand and get_operand_value of each operand
\*   size       get_item_size
\*   specflag1  the coprocessor number IDA keeps in Op1.specflag1
\*   dword      the instruction's encoding, as the set of its set bits
\*   pool       the 8 bytes at the literal pool slot of an LDR =literal, as
\*              the set of their set bits
\*   enc        not visible to the script: the register access the instruction
\*              encodes (form, signature, direction, general-purpose
\*              register), "none" for the others
\* ---------------------------------------------------------------------------

NoEnc ==
  [form |-> "none", key |-> <<>>, read |-> FALSE, reg |-> <<>>]

Plain(m, ops, vals, size) ==
  [mnem |-> m, ops |-> ops, vals |-> vals, size |-> size,
   specflag1 |-> 0, dword |-> {}, pool |-> {}, enc |-> NoEnc]

Literal(m, ops, vals, size, pool) ==
  [mnem |-> m, ops |-> ops, vals |-> vals, size |-> size,
   specflag1 |-> 0, dword |-> {}, pool |-> pool, enc |-> NoEnc]

Imm ==
  <<"#", "imm">>

CReg(n) ==
  <<"c", DecStr[n + 1]>>

R0 ==
  <<"R", "0">>
R1 ==
  <<"R", "1">>
X0 ==
  <<"X", "0">>
X1 ==
  <<"X", "1">>

MRC ==
  <<"M", "R", "C">>
MCR ==
  <<"M", "C", "R">>
MRRC ==
  <<"M", "R", "R", "C">>
MCRR ==
  <<"M", "C", "R", "R">>
MRS ==
  <<"M", "R", "S">>
MSR ==
  <<"M", "S", "R">>

\* MRC/MCR pN, op1, reg, cCRn, cCRm, op2 as IDA shows it: three operands
\* "pN, op1" / "reg,cCRn,cCRm" / "op2"
Cop32(m, cpn, crn, op1, crm, op2, reg) ==
  [mnem |-> m,
   ops |-> << <<"p", DecStr[cpn + 1], ",", DecStr[op1 + 1]>>,
              reg \o <<",">> \o CReg(crn) \o <<",">> \o CReg(crm),
              <<DecStr[op2 + 1]>> >>,
   vals |-> <<op1, 0, op2>>, size |-> 4,
   specflag1 |-> cpn, dword |-> {}, pool |-> {},
   enc |-> [form |-> "cop32",
            key |-> << <<"p", DecStr[cpn + 1]>>, CReg(crn), op1, CReg(crm), op2 >>,
            read |-> (m = MRC), reg |-> reg]]

\* MRRC/MCRR pN, op1, reg1, reg2, cCRm: two operands "pN, op1" / "reg1,reg2,cCRm"
Cop64(m, cpn, op1, crm, reg1, reg2) ==
  [mnem |-> m,
   ops |-> << <<"p", DecStr[cpn + 1], ",", DecStr[op1 + 1]>>,
              reg1 \o <<",">> \o reg2 \o <<",">> \o CReg(crm) >>,
   vals |-> <<op1, 0>>, size |-> 4,
   specflag1 |-> cpn, dword |-> {}, pool |-> {},
   enc |-> [form |-> "cop64",
            key |-> << <<"p", DecStr[cpn + 1]>>, op1, CReg(crm) >>,
            read |-> (m = MRRC), reg |-> reg1]]

\* AArch64 MRS reg, #op1, cCRn, cCRm, #op2 and MSR #op1, cCRn, cCRm, #op2, reg;
\* bit 21 of the encoding is the L (read) bit, bit 19 is op0 - 2.
Sys64(m, op0, op1, crn, crm, op2, reg) ==
  [mnem |-> m,
   ops |-> IF m = MRS THEN <<reg, Imm, CReg(crn), CReg(crm), Imm>>
                      ELSE <<Imm, CReg(crn), CReg(crm), Imm, reg>>,
   vals |-> IF m = MRS THEN <<0, op1, crn, crm, op2>> ELSE <<op1, crn, crm, op2, 0>>,
   size |-> 4, specflag1 |-> 0,
   dword |-> {31, 30, 28, 26, 24, 20}
             \cup (IF m = MRS THEN {21} ELSE {}) \cup (IF op0 = 3 THEN {19} ELSE {}),
   pool |-> {},
   enc |-> [form |-> "sys64",
            key |-> <<op0, op1, CReg(crn), CReg(crm), op2>>,
            read |-> (m = MRS), reg |-> reg]]

\* Bounds of the streams
MaxPre ==
  2
MaxPost ==
  1

\* Bound of the number of times the script is started on a database
MaxRuns ==
  2

\* Instructions that may precede an anchor, AArch32 (ARM and Thumb-2 sizes)
Pre32 ==
  { Plain(<<"M", "O", "V">>, <<R0, Imm>>, <<0, 5>>, 4),
    Plain(<<"M", "O", "V", "S">>, <<R0, Imm>>, <<0, 5>>, 2),
    Plain(<<"M", "O", "V">>, <<R0, R1>>, <<0, 1>>, 4),
    Plain(<<"M", "O", "V">>, <<R1, Imm>>, <<1, 5>>, 4),
    Literal(<<"L", "D", "R">>, <<R0, <<"=", "imm">>>>, <<0, 4096>>, 4, {2, 12, 32}),
    Plain(<<"L", "D", "R">>, <<R0, <<"[", "R", "1", "]">>>>, <<0, 1>>, 4),
    Plain(<<"O", "R", "R">>, <<R0, R0, Imm>>, <<0, 0, 4>>, 4),
    Plain(<<"O", "R", "R">>, <<R0, R0, R1>>, <<0, 0, 1>>, 4),
    Plain(<<"B", "I", "C">>, <<R0, R0, Imm>>, <<0, 0, 1>>, 4),
    Plain(<<"O", "R", "R", "S">>, <<R0, R1>>, <<0, 1>>, 2),
    Plain(<<"N", "O", "P">>, <<>>, <<>>, 2) }

\* Instructions that may follow an anchor; the two-operand ANDS and ORRS are
\* 16-bit Thumb encodings, SVC is a system instruction without a handler
Post32 ==
  { Plain(<<"T", "S", "T">>, <<R0, Imm>>, <<0, 4>>, 4),
    Plain(<<"T", "S", "T">>, <<R1, Imm>>, <<1, 4>>, 4),
    Plain(<<"A", "N", "D">>, <<R1, R0, Imm>>, <<1, 0, 1>>, 4),
    Plain(<<"A", "N", "D", "S">>, <<R1, R0>>, <<1, 0>>, 2),
    Plain(<<"L", "S", "L", "S">>, <<R1, R0, Imm>>, <<1, 0, 29>>, 2),
    Plain(<<"S", "V", "C">>, <<Imm>>, <<0>>, 4),
    Plain(<<"N", "O", "P">>, <<>>, <<>>, 2) }

\* Anchors: SCTLR (one alias, bitfields), PRRR/MAIR0 (two aliases), unknown
\* signatures, a 64-bit transfer, a CPSR immediate write and an MCR whose
\* second operand text has two comma-separated parts
Anchor32 ==
  { Cop32(MCR, 15, 1, 0, 0, 0, R0),
    Cop32(MRC, 15, 1, 0, 0, 0, R0),
    Cop32(MCR, 15, 10, 0, 2, 0, R0),
    Cop32(MCR, 15, 1, 0, 0, 7, R0),
    Cop32(MRC, 15, 1, 0, 0, 7, R0),
    Cop64(MCRR, 15, 0, 2, R0, R1),
    Cop64(MRRC, 15, 5, 2, R0, R1),
    Plain(MSR, << <<"CPSR", "_", "c">>, Imm >>, <<0, 19>>, 4),
    Plain(MCR, << <<"p", "15", ",", "0">>, R0 \o <<",">> \o CReg(1), <<"0">> >>,
          <<0, 0, 0>>, 4) }

Pre64 ==
  { Plain(<<"M", "O", "V">>, <<X0, Imm>>, <<0, 5>>, 4),
    Plain(<<"M", "O", "V">>, <<X0, X1>>, <<0, 1>>, 4),
    Plain(<<"M", "O", "V">>, <<X1, Imm>>, <<1, 5>>, 4),
    Literal(<<"L", "D", "R">>, <<X0, <<"=", "imm">>>>, <<0, 4096>>, 4, {2, 12, 32}),
    Plain(<<"O", "R", "R">>, <<X0, X0, Imm>>, <<0, 0, 4>>, 4),
    Plain(<<"B", "I", "C">>, <<X0, X0, Imm>>, <<0, 0, 1>>, 4),
    Plain(<<"N", "O", "P">>, <<>>, <<>>, 4) }

Post64 ==
  { Plain(<<"T", "S", "T">>, <<X0, Imm>>, <<0, 4>>, 4),
    Plain(<<"T", "S", "T">>, <<X1, Imm>>, <<1, 4>>, 4),
    Plain(<<"A", "N", "D">>, <<X1, X0, Imm>>, <<1, 0, 1>>, 4),
    Plain(<<"L", "S", "L", "S">>, <<X1, X0, Imm>>, <<1, 0, 29>>, 4),
    Plain(<<"L", "S", "L", "S">>, <<X1, X0, Imm>>, <<1, 0, 40>>, 4),
    Plain(<<"S", "V", "C">>, <<Imm>>, <<0>>, 4),
    Plain(<<"N", "O", "P">>, <<>>, <<>>, 4) }

\* SCTLR_EL1 (one alias, bitfields), DBGDTRTX_EL0/DBGDTRRX_EL0 (two aliases),
\* unknown signatures, a PSTATE immediate write
Anchor64 ==
  { Sys64(MSR, 3, 0, 1, 0, 0, X0),
    Sys64(MRS, 3, 0, 1, 0, 0, X0),
    Sys64(MRS, 2, 3, 0, 5, 0, X0),
    Sys64(MSR, 3, 7, 15, 15, 7, X0),
    Sys64(MRS, 3, 7, 15, 15, 7, X0),
    Plain(MSR, <<Imm, Imm>>, <<6, 9>>, 4) }

\* The instructions of a database of the given pointer width
PreInsns(bits) ==
  IF bits = 64 THEN Pre64 ELSE Pre32

AnchorInsns(bits) ==
  IF bits = 64 THEN Anchor64 ELSE Anchor32

PostInsns(bits) ==
  IF bits = 64 THEN Post64 ELSE Post32

\* Single instructions for the classifier: every mnemonic of SYSTEM_INSN, the
\* mnemonics the documentation lists, data items (empty mnemonic) and
\* look-alikes, each with the operand shapes the classifier tests.
DocumentedMnems ==
  { <<"H", "I", "N", "T">>, <<"B", "K", "P", "T">>, <<"B", "X", "J">>, <<"R", "F", "E">> }

OtherMnems ==
  { <<>>,
    <<"S", "U", "B", "S">>, <<"M", "O", "V", "S">>,
    <<"S", "U", "B", "S", "E", "Q">>, <<"M", "O", "V", "S", "N", "E">>,
    <<"S", "U", "B">>, <<"M", "O", "V">>, <<"A", "D", "D", "S">>,
    <<"L", "D", "M">>, <<"L", "D", "M", "F", "D">>, <<"L", "D", "R">>,
    <<"S", "T", "M", "F", "D">> }

ClassifyOps ==
  { <<>>,
    << <<"PC">>, <<"LR">> >>,
    << <<"PC">>, R0 >>,
    << R0, <<"LR">> >>,
    << <<"PC">>, <<"LR">>, Imm >>,
    << <<"SP", "!">>, <<"{", "R", "0", "-", "R", "1", "}", "^">> >>,
    << <<"SP", "!">>, <<"{", "R", "0", "-", "R", "1", "}">> >> }

ClassifyMnems ==
  SYSTEM_INSN \cup DocumentedMnems \cup OtherMnems

ClassifyInsn(m, o) ==
  Plain(m, o, [k \in 1..Len(o) |-> 0], 4)

HostConfigs ==
  { <<"ARM", 32>>, <<"ARM", 64>>, <<"ARMB", 32>>, <<"ARMB", 64>>, <<"metapc", 32>> }

\* The state when the script is started on a database for the first of runs
\* times.
InitRuns(p, b, s, runs) ==
  /\ procname = p
  /\ ptrbits = b
  /\ current_arch = "unset"
  /\ insns = s
  /\ cmt = [i \in 1..Len(s) |-> <<>>]
  /\ color = [i \in 1..Len(s) |-> FALSE]
  /\ pc = "entry"
  /\ cur = 1
  /\ tr_ea = 0
  /\ tr_reg = <<>>
  /\ tr_fields = <<>>
  /\ warned = FALSE
  /\ runs_left = runs - 1
  /\ verdict = [i \in 1..Len(s) |-> "none"]
  /\ examined = {}
  /\ annotated = {}
  /\ after_first = [taken |-> FALSE, cmt |-> [i \in 1..Len(s) |-> <<>>],
                    color |-> [i \in 1..Len(s) |-> FALSE]]

InitOn(p, b, s) ==
  InitRuns(p, b, s, MaxRuns)

\* A stream is an anchor with up to MaxPre instructions before it (none
\* under the processor names other than ARM) and up to MaxPost after it, or a
\* single instruction for the classifier.
InitTrace ==
  \E h \in HostConfigs :
    \E n \in 0..(IF h[1] = "ARM" THEN MaxPre ELSE 0), k \in 0..MaxPost :
      \E pre \in [1..n -> PreInsns(h[2])], a \in AnchorInsns(h[2]),
         post \in [1..k -> PostInsns(h[2])] :
        InitOn(h[1], h[2], pre \o <<a>> \o post)

\* the classifier streams are also run on a database with 16-bit pointers
InitClassify ==
  \E h \in HostConfigs \cup {<<"ARM", 16>>} :
    \E m \in ClassifyMnems, o \in ClassifyOps :
      InitOn(h[1], h[2], <<ClassifyInsn(m, o)>>)

\* Immediate writes of the program status: every CPSR immediate up to MaxPsr
\* on a 32-bit database, every pair of a PSTATE operation and a 4-bit
\* immediate on a 64-bit one.
MaxPsr ==
  1023

PstateOperations ==
  0..7
PstateImmediates ==
  0..15

InitDecode ==
  \/ \E v \in 0..MaxPsr :
       InitOn("ARM", 32, <<Plain(MSR, << <<"CPSR", "_", "c">>, Imm >>, <<0, v>>, 4)>>)
  \/ \E o \in PstateOperations, v \in PstateImmediates :
       InitOn("ARM", 64, <<Plain(MSR, <<Imm, Imm>>, <<o, v>>, 4)>>)

\* Single system instructions for the dispatch, each on a 32-bit and on a
\* 64-bit database: the coprocessor forms (with their "2" variants), MRS/MSR
\* in the system-register form, MSR with an immediate and with a register
\* operand, MRS of the CPSR, and system instructions without a handler.
DispatchInsns ==
  { Cop32(MRC, 15, 1, 0, 0, 0, R0),
    Cop32(MCR, 15, 1, 0, 1, 0, R0),
    [Cop32(MRC, 15, 1, 0, 1, 2, R0) EXCEPT !.mnem = <<"M", "R", "C", "2">>],
    [Cop32(MCR, 15, 1, 4, 1, 0, R0) EXCEPT !.mnem = <<"M", "C", "R", "2">>],
    Cop64(MCRR, 15, 0, 2, R0, R1),
    Cop64(MRRC, 15, 0, 2, R0, R1),
    [Cop64(MCRR, 15, 1, 2, R0, R1) EXCEPT !.mnem = <<"M", "C", "R", "R", "2">>],
    [Cop64(MRRC, 15, 1, 2, R0, R1) EXCEPT !.mnem = <<"M", "R", "R", "C", "2">>],
    Sys64(MSR, 3, 0, 1, 0, 0, X0),
    Sys64(MRS, 3, 0, 1, 0, 0, X0),
    Plain(MSR, << <<"CPSR", "_", "c">>, Imm >>, <<0, 211>>, 4),
    Plain(MSR, << <<"CPSR", "_", "c">>, R0 >>, <<0, 0>>, 4),
    Plain(MRS, << R0, <<"CPSR">> >>, <<0, 0>>, 4),
    Plain(MSR, <<Imm, Imm>>, <<5, 1>>, 4),
    Plain(MSR, <<Imm, X0>>, <<6, 0>>, 4),
    Plain(MSR, <<X0, Imm>>, <<0, 9>>, 4),
    Plain(<<"S", "V", "C">>, <<Imm>>, <<0>>, 4),
    Plain(<<"D", "S", "B">>, << <<"SY">> >>, <<15>>, 4),
    Plain(<<"V", "M", "R", "S">>, << R0, <<"FPSCR">> >>, <<0, 0>>, 4),
    Plain(<<"L", "D", "C">>, << <<"p", "14">>, CReg(5), <<"[", "R", "0", "]">> >>,
          <<14, 5, 0>>, 4) }

InitDispatch ==
  \E b \in {32, 64}, i \in DispatchInsns :
    InitOn("ARM", b, <<i>>)

\* A write of a register with bitfields right after a full assignment of the
\* source register: MOV of every immediate up to MaxImm, LDR of every literal
\* over PoolBits (bits 32 and 34 lie in the upper half of a 64-bit slot).
\* SCTLR and SCTLR_EL1 have no field at bit 6; HCR_EL2 has fields at bits 32
\* to 38.
MaxImm ==
  127

PoolBits ==
  {0, 2, 12, 31, 32, 34}

BitsAnchors(bits) ==
  IF bits = 32 THEN { Cop32(MCR, 15, 1, 0, 0, 0, R0) }
  ELSE { Sys64(MSR, 3, 0, 1, 0, 0, X0), Sys64(MSR, 3, 4, 1, 1, 0, X0) }

BitsAssignments(bits) ==
  LET r == IF bits = 32 THEN R0 ELSE X0
  IN  { Plain(<<"M", "O", "V">>, <<r, Imm>>, <<0, v>>, 4) : v \in 0..MaxImm }
      \cup { Literal(<<"L", "D", "R">>, <<r, <<"=", "imm">>>>, <<0, 4096>>, 4, q) :
               q \in SUBSET PoolBits }

InitBits ==
  \E b \in {32, 64} :
    \E pre \in BitsAssignments(b), a \in BitsAnchors(b) :
      InitOn("ARM", b, <<pre, a>>)

\* Streams of two or three 4-byte instructions with several anchors next to
\* each other and to the instructions their traces decode; one MCR takes its
\* value from PC, and MOVS PC, LR is a system instruction that assigns PC.
Mixed32 ==
  { Cop32(MCR, 15, 1, 0, 0, 0, R0),
    Cop32(MRC, 15, 1, 0, 0, 0, R0),
    Cop32(MCR, 15, 1, 0, 0, 0, <<"PC">>),
    Plain(<<"M", "O", "V", "S">>, << <<"PC">>, <<"LR">> >>, <<15, 14>>, 4),
    Plain(<<"M", "O", "V">>, <<R0, Imm>>, <<0, 5>>, 4),
    Plain(<<"O", "R", "R">>, <<R0, R0, Imm>>, <<0, 0, 4>>, 4),
    Plain(<<"T", "S", "T">>, <<R0, Imm>>, <<0, 4>>, 4),
    Plain(<<"S", "V", "C">>, <<Imm>>, <<0>>, 4),
    Plain(MSR, << <<"CPSR", "_", "c">>, Imm >>, <<0, 19>>, 4) }

Mixed64 ==
  { Sys64(MSR, 3, 0, 1, 0, 0, X0),
    Sys64(MRS, 3, 0, 1, 0, 0, X0),
    Plain(<<"B", "I", "C">>, <<X0, X0, Imm>>, <<0, 0, 1>>, 4),
    Plain(<<"A", "N", "D">>, <<X1, X0, Imm>>, <<1, 0, 1>>, 4),
    Plain(MSR, <<Imm, Imm>>, <<6, 9>>, 4) }

MixedInsns(bits) ==
  IF bits = 64 THEN Mixed64 ELSE Mixed32

MaxMixed ==
  3

InitMixed ==
  \E b \in {32, 64}, n \in 2..MaxMixed :
    \E s \in [1..n -> MixedInsns(b)] :
      InitOn("ARM", b, s)

Init ==
  InitTrace \/ InitClassify \/ InitDecode \/ InitDispatch \/ InitBits \/ InitMixed

Spec ==
  Init /\ [][Next]_vars

\* Every signature of each form, as a read and as a write, alone in the
\* stream: the coprocessor forms on a 32-bit database, MRS/MSR on a 64-bit
\* one.  The script is started once on the MRC/MCR and MRS/MSR streams.
CoprocNumbers ==
  {14, 15}
CRegNumbers ==
  0..15
Opcodes ==
  0..7

InitCatalog ==
  \/ \E m \in {MRC, MCR}, cp \in CoprocNumbers, crn \in CRegNumbers,
        op1 \in Opcodes, crm \in CRegNumbers, op2 \in Opcodes :
       InitRuns("ARM", 32, <<Cop32(m, cp, crn, op1, crm, op2, R0)>>, 1)
  \/ \E m \in {MRRC, MCRR}, cp \in CoprocNumbers, op1 \in Opcodes, crm \in CRegNumbers :
       InitOn("ARM", 32, <<Cop64(m, cp, op1, crm, R0, R1)>>)
  \/ \E m \in {MRS, MSR}, op0 \in {2, 3}, op1 \in Opcodes, crn \in CRegNumbers,
        crm \in CRegNumbers, op2 \in Opcodes :
       InitRuns("ARM", 64, <<Sys64(m, op0, op1, crn, crm, op2, X0)>>, 1)

SpecCatalog ==
  InitCatalog /\ [][Next]_vars


\* ---------------------------------------------------------------------------
\* Properties
\* ---------------------------------------------------------------------------

\* the catalog identify_register consults for an instruction of the given form
CatalogOf(form) ==
  IF form = "cop32" THEN COPROC_REGISTERS
  ELSE IF form = "cop64" THEN COPROC_REGISTERS_64
  ELSE SYSTEM_REGISTERS

Keys32 ==
  { COPROC_REGISTERS[k][1] : k \in 1..Len(COPROC_REGISTERS) }

Keys64 ==
  { COPROC_REGISTERS_64[k][1] : k \in 1..Len(COPROC_REGISTERS_64) }

KeysSys ==
  { SYSTEM_REGISTERS[k][1] : k \in 1..Len(SYSTEM_REGISTERS) }

KeysOf(form) ==
  IF form = "cop32" THEN Keys32 ELSE IF form = "cop64" THEN Keys64 ELSE KeysSys

\* every short name and description of the three catalogs
AliasStrings ==
  UNION { { it[k][2][j] : k \in 1..Len(it), j \in 1..2 } \cup
          { it[k][2][Len(it[k][2])] : k \in 1..Len(it) } \cup
          { it[k][2][Len(it[k][2]) - 1] : k \in 1..Len(it) }
          : it \in {COPROC_REGISTERS, COPROC_REGISTERS_64, SYSTEM_REGISTERS} }

\* the anchors the driver has handled: register accesses it classified
Anchors ==
  { i \in 1..Len(insns) : insns[i].enc.form # "none" /\ verdict[i] = "system" }

Known(i) ==
  insns[i].enc.key \in KeysOf(insns[i].enc.form)

Dir(i) ==
  IF insns[i].enc.read THEN "<" ELSE ">"

\* two signatures of equal length that differ in exactly one component
Neighbours(k1, k2) ==
  /\ Len(k1) = Len(k2)
  /\ Cardinality({ c \in 1..Len(k1) : k1[c] # k2[c] }) = 1

\* C1: a signature that is not a key of the consulted catalog gets the unknown
\* outcome: the anchor's comment is the unknown-register comment, it holds no
\* alias of any catalog entry, and no trace is started for the anchor.
C1_UnknownSignature ==
  \A i \in Anchors :
    ~Known(i) =>
      /\ Len(cmt[i]) = 3
      /\ cmt[i][3] = "] Unknown system register."
      /\ \A k \in 1..Len(cmt[i]) : cmt[i][k] \notin AliasStrings
      /\ \A e \in examined : e[1] # i
      /\ ~(cur = i /\ pc \in {"back", "fwd"})

\* an unknown signature next to a catalog key has been given the unknown outcome
C1_Witness ==
  \E i \in Anchors :
    /\ ~Known(i)
    /\ \E k \in KeysOf(insns[i].enc.form) : Neighbours(k, insns[i].enc.key)
    /\ cmt[i] # <<>>
    /\ pc = "done"

\* the pairs (short name, description) of a catalog value
AliasesOfDesc(desc) ==
  { <<desc[2 * j - 1], desc[2 * j]>> : j \in 1..(Len(desc) \div 2) }

\* the pairs (first name, name in parentheses) of the clauses of a comment
AliasesIn(c) ==
  { <<c[5 * j - 1], c[5 * j + 1]>> : j \in { n \in 1..Len(c) : 5 * n + 2 <= Len(c) } }

\* C2: for every item of each catalog, an instruction that encodes the item's
\* key is annotated with exactly the aliases of that item.
C2_SignatureRoundTrip ==
  \A i \in Anchors :
    \A k \in 1..Len(CatalogOf(insns[i].enc.form)) :
      CatalogOf(insns[i].enc.form)[k][1] = insns[i].enc.key =>
        AliasesIn(cmt[i]) = AliasesOfDesc(CatalogOf(insns[i].enc.form)[k][2])

\* C3: a read-form instruction (MRC, MRRC, MRS) is annotated with direction
\* '<' and a write-form instruction (MCR, MCRR, MSR) with '>', in the three
\* signature forms, resolved or not.
C3_DirectionSymmetry ==
  \A i \in Anchors :
    /\ Len(cmt[i]) >= 3
    /\ cmt[i][1] = "["
    /\ cmt[i][2] = Dir(i)

\* a read of an unknown register and a write of a known one, both tagged
C3_Witness ==
  \E i \in Anchors :
    /\ insns[i].enc.read
    /\ insns[i].enc.form = "cop64"
    /\ ~Known(i)
    /\ cmt[i][2] = "<"
    /\ pc = "done"

\* the address one past the last byte of the stream is Addr(Len(insns) + 1)
MOVm ==
  <<"M", "O", "V">>
LDRm ==
  <<"L", "D", "R">>
ORRm ==
  <<"O", "R", "R">>
BICm ==
  <<"B", "I", "C">>

\* operand n (from 0) of instruction j starts with the character ch
StartsWith(j, n, ch) ==
  /\ n + 1 <= Len(insns[j].ops)
  /\ Len(insns[j].ops[n + 1]) > 0
  /\ insns[j].ops[n + 1][1] = ch

\* operand n (from 0) of instruction j is the register reg
OperandIs(j, n, reg) ==
  /\ n + 1 <= Len(insns[j].ops)
  /\ insns[j].ops[n + 1] = reg

\* instruction j is a MOV-immediate or an LDR-literal
FullAssignment(j) ==
  \/ Slice(insns[j].mnem, 0, 3) = MOVm /\ StartsWith(j, 1, "#")
  \/ Slice(insns[j].mnem, 0, 3) = LDRm /\ StartsWith(j, 1, "=")

\* instruction j is an ORR-immediate or a BIC-immediate
PartialUpdate(j) ==
  /\ Slice(insns[j].mnem, 0, 3) \in {ORRm, BICm}
  /\ StartsWith(j, 2, "#")

\* C4: once a backward trace has annotated a MOV-immediate or LDR-literal, the
\* trace is over: it examines and annotates nothing at a lower address.
C4_FullAssignmentStops ==
  \A p \in annotated :
    FullAssignment(p[2]) =>
      /\ ~(pc = "back" /\ cur = p[1])
      /\ \A e \in examined : e[1] = p[1] => e[2] >= Addr(p[2])
      /\ \A q \in annotated : q[1] = p[1] => q[2] >= p[2]

\* a full assignment was annotated although the instruction before it is
\* another trackable instruction on the same register, which stays untouched
C4_Witness ==
  \E p \in annotated :
    /\ FullAssignment(p[2])
    /\ p[2] > 1
    /\ Slice(insns[p[2] - 1].mnem, 0, 3) \in {MOVm, ORRm, BICm}
    /\ OperandIs(p[2] - 1, 0, insns[p[1]].enc.reg)
    /\ StartsWith(p[2] - 1, Len(insns[p[2] - 1].ops) - 1, "#")
    /\ cmt[p[2] - 1] = <<>>
    /\ pc = "done"

\* the anchors for which a backward trace was run, once the scan is over
BackAnchors ==
  { a \in Anchors : ~insns[a].enc.read /\ \E e \in examined : e[1] = a }

FwdAnchors ==
  { a \in Anchors : insns[a].enc.read /\ \E e \in examined : e[1] = a }

\* the first instruction of the contiguous run of ORR/BIC-immediates on the
\* tracked register that ends right before anchor a (a itself for an empty run)
RunStart(a) ==
  CHOOSE r \in 1..a :
    /\ \A j \in r..(a - 1) : PartialUpdate(j) /\ OperandIs(j, 0, insns[a].enc.reg)
    /\ r > 1 => ~(PartialUpdate(r - 1) /\ OperandIs(r - 1, 0, insns[a].enc.reg))

\* the bitfield table of the register anchor a resolves to
FieldsOf(a) ==
  DictGet(IF insns[a].enc.form = "sys64" THEN SYSREG_FIELDS ELSE COPROC_FIELDS,
          DictGet(CatalogOf(insns[a].enc.form), insns[a].enc.key)[1])

\* the full names of the fields of table whose bit is set in the value v
FieldNames(table, v) ==
  { table[k][2][2] : k \in { n \in 1..Len(table) : table[n][1] \in BitsOf(v) } }

\* the pieces of a comment after its first piece, without the ", " separators
Listed(c) ==
  { c[k] : k \in { n \in 2..Len(c) : n % 2 = 0 } }

\* C5: in a backward trace every ORR/BIC-immediate on the tracked register in
\* the run right before the anchor is annotated ("Set bit" / "Clear bit" with
\* the full names), and a MOV/LDR full assignment right before the run is
\* reached and annotated too.
C5_Accumulation ==
  pc = "done" =>
    \A a \in BackAnchors :
      /\ \A j \in RunStart(a)..(a - 1) :
           /\ Len(cmt[j]) > 0
           /\ cmt[j][1] = (IF Slice(insns[j].mnem, 0, 3) = ORRm THEN "Set bit " ELSE "Clear bit ")
           /\ Listed(cmt[j]) = FieldNames(FieldsOf(a), insns[j].vals[3])
      /\ (/\ RunStart(a) < a
          /\ RunStart(a) > 1
          /\ FullAssignment(RunStart(a) - 1)
          /\ OperandIs(RunStart(a) - 1, 0, insns[a].enc.reg))
         => /\ Len(cmt[RunStart(a) - 1]) > 0
            /\ cmt[RunStart(a) - 1][1] = "Set bits "

\* instruction j is unrelated to a backward trace of reg
UnrelatedBack(j, reg) ==
  \/ Slice(insns[j].mnem, 0, 3) \notin {LDRm, MOVm, ORRm, BICm}
  \/ ~OperandIs(j, 0, reg)

\* instruction j is unrelated to a forward trace of reg
UnrelatedFwd(j, reg) ==
  \/ Slice(insns[j].mnem, 0, 3) \notin
       { <<"T", "S", "T">>, <<"T", "E", "Q">>, <<"A", "N", "D">>, <<"L", "S", "L">> }
  \/ /\ Slice(insns[j].mnem, 0, 3) \in { <<"T", "S", "T">>, <<"T", "E", "Q">> }
     /\ ~OperandIs(j, 0, reg)
  \/ /\ Slice(insns[j].mnem, 0, 3) \in { <<"A", "N", "D">>, <<"L", "S", "L">> }
     /\ ~OperandIs(j, 1, reg)

\* C6: when the instruction right before a write anchor (right after a read
\* anchor) is unrelated, the trace annotates nothing and examines nothing
\* beyond that instruction: the anchor's comment is the only one that changed.
C6_BoundedScope ==
  /\ \A a \in BackAnchors :
       (a > 1 /\ UnrelatedBack(a - 1, insns[a].enc.reg)) =>
         /\ \A j \in 1..Len(insns) : j # a => cmt[j] = <<>>
         /\ \A e \in examined : (e[1] = a /\ HeadAt(e[2]) # 0) => e[2] >= Addr(a - 1)
  /\ \A a \in FwdAnchors :
       (a < Len(insns) /\ UnrelatedFwd(a + 1, insns[a].enc.reg)) =>
         /\ \A j \in 1..Len(insns) : j # a => cmt[j] = <<>>
         /\ \A e \in examined : (e[1] = a /\ HeadAt(e[2]) # 0) => e[2] <= Addr(a + 1)

\* the mnemonics the documentation names as the fixed system set: the
\* elements of SYSTEM_INSN with HINT, BKPT, BXJ and RFE as separate mnemonics
DocumentedSystemSet ==
  (SYSTEM_INSN \ { <<"H", "I", "N", "T", "B", "K", "P", "T">>,
                   <<"B", "X", "J", "R", "F", "E">> })
  \cup DocumentedMnems

\* C7: is_system_insn returns true for every mnemonic of the documented
\* system set (HINT, BKPT, BXJ and RFE among them), whatever the operands.
C7_DocumentedSetClassified ==
  \A i \in 1..Len(insns) :
    (verdict[i] # "none" /\ insns[i].mnem \in DocumentedSystemSet) => verdict[i] = "system"

\* mnemonic m begins with the characters of p
HasPrefix(m, p) ==
  /\ Len(m) >= Len(p)
  /\ \A k \in 1..Len(p) : m[k] = p[k]

\* rule (a): LDM... with a second operand that ends with '^'
ExceptionReturnLDM(i) ==
  /\ HasPrefix(insns[i].mnem, <<"L", "D", "M">>)
  /\ Len(insns[i].ops) >= 2
  /\ Len(insns[i].ops[2]) > 0
  /\ insns[i].ops[2][Len(insns[i].ops[2])] = "^"

PcLr(i) ==
  /\ OperandIs(i, 0, <<"PC">>)
  /\ OperandIs(i, 1, <<"LR">>)

\* C8 as stated: outside SYSTEM_INSN an instruction is classified exactly when
\* rule (a) holds or its mnemonic is exactly SUBS or MOVS with operands PC, LR.
C8_ExactIdiom ==
  \A i \in 1..Len(insns) :
    (verdict[i] # "none" /\ insns[i].mnem \notin SYSTEM_INSN) =>
      (verdict[i] = "system" <=>
         \/ ExceptionReturnLDM(i)
         \/ insns[i].mnem \in { <<"S", "U", "B", "S">>, <<"M", "O", "V", "S">> } /\ PcLr(i))

\* C8 amended: outside SYSTEM_INSN an instruction is classified exactly when
\* rule (a) holds or its mnemonic begins with SUBS or MOVS and its operands
\* are PC, LR; an empty mnemonic is never classified.
C8_PrefixIdiom ==
  \A i \in 1..Len(insns) :
    (verdict[i] # "none" /\ insns[i].mnem \notin SYSTEM_INSN) =>
      /\ verdict[i] = "system" <=>
           \/ ExceptionReturnLDM(i)
           \/ /\ \/ HasPrefix(insns[i].mnem, <<"S", "U", "B", "S">>)
                 \/ HasPrefix(insns[i].mnem, <<"M", "O", "V", "S">>)
              /\ PcLr(i)
      /\ insns[i].mnem = <<>> => verdict[i] = "other"

\* a condition-suffixed SUBS PC, LR has been classified as a system instruction
C8_Witness ==
  \E i \in 1..Len(insns) :
    /\ insns[i].mnem = <<"S", "U", "B", "S", "E", "Q">>
    /\ PcLr(i)
    /\ verdict[i] = "system"

\* the value the lookup returns for anchor i
Resolved(i) ==
  DictGet(CatalogOf(insns[i].enc.form), insns[i].enc.key)

\* C9 as stated: "[<direction>] <long> (<short>)" per alias, joined by " or ".
C9_LongNameFirst ==
  \A i \in Anchors :
    Known(i) =>
      cmt[i] = <<"[", Dir(i), "] ", Resolved(i)[2], " (", Resolved(i)[1], ")">>
               \o (IF Len(Resolved(i)) = 4
                   THEN <<" or ", Resolved(i)[4], " (", Resolved(i)[3], ")">> ELSE <<>>)

\* C9 amended: "[<direction>] <short> (<long>)" per alias of the entry the
\* lookup returns, the clauses joined by a line break and " or ".
C9_ShortNameFirst ==
  \A i \in Anchors :
    Known(i) =>
      cmt[i] = <<"[", Dir(i), "] ", Resolved(i)[1], " (", Resolved(i)[2], ")">>
               \o (IF Len(Resolved(i)) = 4
                   THEN <<"\n or ", Resolved(i)[3], " (", Resolved(i)[4], ")">> ELSE <<>>)

\* an entry with two aliases has been annotated
C9_Witness ==
  \E i \in Anchors :
    /\ Known(i)
    /\ Len(Resolved(i)) = 4
    /\ Len(cmt[i]) = 12
    /\ pc = "done"

\* C10 as stated: the unknown comment names the register class of the form.
C10_ClassNamed ==
  \A i \in Anchors :
    ~Known(i) =>
      cmt[i] = <<"[", Dir(i),
                 IF insns[i].enc.form = "sys64" THEN "] Unknown system register."
                 ELSE "] Unknown coprocessor register.">>

\* C10 amended: the unknown comment is "[<direction>] Unknown system
\* register." in the three forms, and the scan goes on with the next
\* instruction.
C10_UnknownSystemRegister ==
  \A i \in Anchors :
    ~Known(i) =>
      /\ cmt[i] = <<"[", Dir(i), "] Unknown system register.">>
      /\ color[i]
      /\ cur > i
      /\ pc # "aborted"
      /\ (pc = "done" /\ i < Len(insns)) => verdict[i + 1] # "none"

\* an unknown coprocessor register was followed by another instruction that
\* the scan has visited
C10_Witness ==
  \E i \in Anchors :
    /\ ~Known(i)
    /\ insns[i].enc.form = "cop32"
    /\ i < Len(insns)
    /\ verdict[i + 1] = "other"
    /\ cmt[i][3] = "] Unknown system register."

\* a tracer has been entered for anchor a
TraceStarted(a) ==
  \/ cur = a /\ pc \in {"back", "fwd"}
  \/ \E e \in examined : e[1] = a

\* C11: a trace is started for an anchor only when its signature resolves to
\* an entry with exactly one alias whose short name has a non-empty bitfield
\* table; an entry with several aliases has all of them in the anchor's
\* comment and its trace annotates no other instruction.
C11_TraceNeedsOneAliasAndTable ==
  \A a \in Anchors :
    /\ TraceStarted(a) =>
         /\ Known(a)
         /\ Len(Resolved(a)) = 2
         /\ FieldsOf(a) # <<>>
    /\ (Known(a) /\ Len(Resolved(a)) > 2) =>
         /\ AliasesIn(cmt[a]) = AliasesOfDesc(Resolved(a))
         /\ ~TraceStarted(a)
         /\ \A p \in annotated : p[1] # a
         /\ \A j \in 1..Len(insns) : j # a => cmt[j] = <<>>

\* a write of a register with two aliases right after a MOV-immediate on the
\* transferred register: both aliases reported, the MOV left alone
C11_Witness ==
  \E a \in Anchors :
    /\ Known(a)
    /\ Len(Resolved(a)) = 4
    /\ ~insns[a].enc.read
    /\ a > 1
    /\ insns[a - 1].mnem = MOVm
    /\ OperandIs(a - 1, 0, insns[a].enc.reg)
    /\ StartsWith(a - 1, 1, "#")
    /\ Cardinality(AliasesIn(cmt[a])) = 2
    /\ cmt[a - 1] = <<>>
    /\ pc = "done"

\* the AArch32 MSR instructions with an immediate second operand that the
\* driver has handled
PsrWrites ==
  { i \in 1..Len(insns) :
      /\ verdict[i] = "system"
      /\ current_arch = "aarch32"
      /\ insns[i].mnem = MSR
      /\ StartsWith(i, 1, "#") }

\* the processor mode a 5-bit mode field names
ModeName(m) ==
  CASE m = 16 -> "User"
    [] m = 17 -> "FIQ"
    [] m = 18 -> "IRQ"
    [] m = 19 -> "Supervisor"
    [] m = 22 -> "Monitor"
    [] m = 23 -> "Abort"
    [] m = 27 -> "Undefined"
    [] m = 31 -> "System"
    [] OTHER -> "Unknown"

\* ch when the bit of the given weight is set in v, else '-'
Letter(v, weight, ch) ==
  IF (v \div weight) % 2 = 1 THEN ch ELSE "-"

\* C12: an AArch32 MSR with immediate v is annotated "Set CPSR [EAIFT], Mode:
\* <name>": the name of the mode v's low 5 bits select ("Unknown" outside the
\* table), and E, A, I, F, T shown exactly when bit 9, 8, 7, 6, 5 of v is set.
C12_PsrDecode ==
  \A i \in PsrWrites :
    LET v == insns[i].vals[2]
    IN  cmt[i] = <<"Set CPSR [", Letter(v, 512, "E"), Letter(v, 256, "A"),
                   Letter(v, 128, "I"), Letter(v, 64, "F"), Letter(v, 32, "T"),
                   "], Mode: ", ModeName(v % 32)>>

\* immediate 0b10011 annotated as Supervisor with no flag, and an immediate
\* with the E and F bits and a mode outside the table
C12_Witness ==
  \E i \in PsrWrites :
    /\ pc = "done"
    /\ \/ /\ insns[i].vals[2] = 19
          /\ cmt[i] = <<"Set CPSR [", "-", "-", "-", "-", "-", "], Mode: ", "Supervisor">>
          /\ Len(insns) = 1
       \/ /\ insns[i].vals[2] = 576
          /\ cmt[i] = <<"Set CPSR [", "E", "-", "-", "F", "-", "], Mode: ", "Unknown">>

\* the AArch64 MSR instructions with two immediate operands and no third
\* operand that the driver has handled
PstateWrites ==
  { i \in 1..Len(insns) :
      /\ verdict[i] = "system"
      /\ current_arch = "aarch64"
      /\ insns[i].mnem = MSR
      /\ Len(insns[i].ops) = 2
      /\ StartsWith(i, 0, "#")
      /\ StartsWith(i, 1, "#") }

\* C13: an AArch64 MSR #op, #v is annotated "Select PSTATE.SP = SP_EL0" /
\* "...SP_ELx" by bit 0 of v when op is 0b101, and "Set" (op 0b110) or "Clr"
\* (op 0b111) followed by " PSTATE.DAIF [DAIF]" with D, A, I, F shown exactly
\* when bit 3, 2, 1, 0 of v is set.
C13_PstateDecode ==
  \A i \in PstateWrites :
    LET op == insns[i].vals[1]
        v  == insns[i].vals[2]
    IN  /\ op = 5 =>
             cmt[i] = <<"Select PSTATE.SP = SP_EL", IF v % 2 = 0 THEN "0" ELSE "x">>
        /\ op \in {6, 7} =>
             cmt[i] = (IF op = 6 THEN <<"S", "e", "t">> ELSE <<"C", "l", "r">>)
                      \o <<" PSTATE.DAIF [", Letter(v, 8, "D"), Letter(v, 4, "A"),
                           Letter(v, 2, "I"), Letter(v, 1, "F"), "]">>

\* MSR #6, #9 alone in the stream annotated "Set PSTATE.DAIF [D--F]"
C13_Witness ==
  \E i \in PstateWrites :
    /\ insns[i].vals = <<6, 9>>
    /\ cmt[i] = <<"S", "e", "t", " PSTATE.DAIF [", "D", "-", "-", "F", "]">>
    /\ Len(insns) = 1
    /\ pc = "done"

\* C14: when a second run of the script over the same stream is over, every
\* instruction has the comment and the color the first run left it with.
C14_SecondRunIdentical ==
  (after_first.taken /\ pc \in {"done", "aborted"}) =>
    /\ cmt = after_first.cmt
    /\ color = after_first.color

\* a second run has finished on a stream in which it annotated the anchor
\* again and its trace annotated a neighbour again
C14_Witness ==
  /\ after_first.taken
  /\ pc = "done"
  /\ \E p \in annotated : cmt[p[2]] # <<>> /\ cmt[p[1]] # <<>> /\ color[p[1]]

\* C15: a classified system instruction whose processing is over - the driver
\* has moved past it, or its handler or its trace has failed - has its color
\* set.
C15_ColorAlwaysSet ==
  \A i \in 1..Len(insns) :
    (verdict[i] = "system" /\ (cur > i \/ pc \in {"done", "aborted"})) => color[i]

\* C16: when the processing of an instruction has failed, every system
\* instruction after it in the stream is still classified and colored.
C16_DriverSurvivesFailure ==
  pc = "aborted" =>
    \A j \in (cur + 1)..Len(insns) :
      is_system_insn(Addr(j)) => (verdict[j] = "system" /\ color[j])

\* C17: under a processor name other than ARM and ARMB the run warns and
\* scans nothing: no instruction is classified, commented or colored.  Under
\* ARM and ARMB no warning is issued and from the start of the scan on
\* current_arch is aarch64 for 64-bit pointers and aarch32 for any other width.
C17_ArchitectureGate ==
  /\ procname \notin {"ARM", "ARMB"} =>
       /\ pc \in {"entry", "done"}
       /\ pc = "done" => warned
       /\ current_arch = "unset"
       /\ \A i \in 1..Len(insns) : verdict[i] = "none" /\ cmt[i] = <<>> /\ ~color[i]
  /\ procname \in {"ARM", "ARMB"} =>
       /\ ~warned
       /\ current_arch \in {"unset", IF ptrbits = 64 THEN "aarch64" ELSE "aarch32"}
       /\ (pc # "entry" \/ after_first.taken) => current_arch # "unset"

\* a run under another processor name is over with a warning, the system
\* instruction of the stream untouched
C17_Witness ==
  /\ procname = "metapc"
  /\ pc = "done"
  /\ warned
  /\ \E i \in 1..Len(insns) : is_system_insn(Addr(i)) /\ verdict[i] = "none" /\ ~color[i]

\* instruction j matches a pattern the forward tracer annotates for reg
ForwardPattern(j, reg) ==
  \/ /\ Slice(insns[j].mnem, 0, 3) \in { <<"T", "S", "T">>, <<"T", "E", "Q">> }
     /\ OperandIs(j, 0, reg)
     /\ StartsWith(j, 1, "#")
  \/ /\ Slice(insns[j].mnem, 0, 3) = <<"A", "N", "D">>
     /\ OperandIs(j, 1, reg)
     /\ StartsWith(j, 2, "#")
  \/ /\ Slice(insns[j].mnem, 0, 4) = <<"L", "S", "L", "S">>
     /\ OperandIs(j, 1, reg)
     /\ StartsWith(j, 2, "#")
     /\ insns[j].vals[3] <= 31

C19_TraceReturnsToDriver ==
  \A a \in 1..Len(insns) :
    TraceStarted(a) => ~(pc = "aborted" /\ cur = a)

\* C20: every location a backward trace examines is the start of an
\* instruction before the anchor, or lies before the stream once every
\* instruction down to the first has been examined, and no instruction between
\* it and the anchor is left out; likewise after the anchor for a forward
\* trace, whose last location may be the end of the stream.
C20_StepsToAdjacentInstruction ==
  \A e \in examined :
    LET a == e[1]
        h == HeadAt(e[2])
    IN  IF ~insns[a].enc.read
        THEN /\ e[2] < Addr(a)
             /\ h # 0 \/ e[2] < 0
             /\ \A j \in (IF h # 0 THEN h + 1 ELSE 1)..(a - 1) : <<a, Addr(j)>> \in examined
        ELSE /\ e[2] > Addr(a)
             /\ h # 0 \/ e[2] = Addr(Len(insns) + 1)
             /\ \A j \in (a + 1)..((IF h # 0 THEN h ELSE Len(insns) + 1) - 1) :
                  <<a, Addr(j)>> \in examined

\* instruction j is an LDR/MOV/ORR/BIC on reg whose operand shape the backward
\* tracer does not decode
UndecodableShape(j, reg) ==
  /\ Slice(insns[j].mnem, 0, 3) \in {LDRm, MOVm, ORRm, BICm}
  /\ OperandIs(j, 0, reg)
  /\ ~FullAssignment(j)
  /\ ~PartialUpdate(j)

\* C21: when a backward trace examines an LDR/MOV/ORR/BIC on the tracked
\* register whose shape is not the decodable one, the trace ends there without
\* an error: the instruction gets no comment, nothing at a lower address is
\* examined, the scan is not stopped, and the comments this trace has written
\* are still there.
C21_UndecodableShapeStops ==
  \A e \in examined :
    LET a == e[1]
        j == HeadAt(e[2])
    IN  (/\ ~insns[a].enc.read
         /\ j # 0
         /\ UndecodableShape(j, insns[a].enc.reg))
        => /\ cmt[j] = <<>>
           /\ ~(pc = "aborted" /\ cur = a)
           /\ ~(pc = "back" /\ cur = a)
           /\ \A f \in examined : f[1] = a => f[2] >= e[2]
           /\ \A p \in annotated : p[1] = a => cmt[p[2]] # <<>>

\* C22: for an AArch64 MRS/MSR the extracted signature is the (op0, op1, CRn,
\* CRm, op2) the instruction encodes, with op0 2 or 3, and the register
\* handed to the tracer is the instruction's general-purpose register; the
\* anchor's comment is the outcome of the lookup of that signature.
C22_SysSignature ==
  \A i \in 1..Len(insns) :
    insns[i].enc.form = "sys64" =>
      /\ aarch64_sys_sig(Addr(i)) = insns[i].enc.key
      /\ aarch64_sys_sig(Addr(i))[1] \in {2, 3}
      /\ aarch64_sys_reg(Addr(i)) = insns[i].enc.reg
      /\ (cur = i /\ pc \in {"back", "fwd"}) => tr_reg = insns[i].enc.reg
      /\ (i \in Anchors /\ current_arch = "aarch64") =>
           IF Known(i)
           THEN AliasesIn(cmt[i]) = AliasesOfDesc(Resolved(i))
           ELSE cmt[i] = <<"[", Dir(i), "] Unknown system register.">>

\* the trace of an MSR to a register with a bitfield table has been entered
\* with the fifth operand as the tracked register
C22_Witness ==
  \E i \in Anchors :
    /\ insns[i].enc.form = "sys64"
    /\ ~insns[i].enc.read
    /\ insns[i].ops[5] = X0
    /\ insns[i].enc.key[1] = 3
    /\ cur = i
    /\ pc = "back"
    /\ tr_reg = X0

\* the handler the dispatch rules name for instruction i, by the first rule
\* that matches
ExpectedHandler(i) ==
  LET m == insns[i].mnem
  IN  IF HasPrefix(m, MRRC) \/ HasPrefix(m, MCRR) THEN "cop64"
      ELSE IF HasPrefix(m, MRC) \/ HasPrefix(m, MCR) THEN "cop32"
      ELSE IF current_arch = "aarch32" /\ HasPrefix(m, MSR) THEN "psr"
      ELSE IF current_arch = "aarch64" /\ HasPrefix(m, MSR) /\ Len(insns[i].ops) < 3
      THEN "pstate"
      ELSE IF current_arch = "aarch64" /\ (HasPrefix(m, MSR) \/ HasPrefix(m, MRS))
      THEN "sys64"
      ELSE "none"

\* the comment the named handler leaves on instruction i, <<>> for none
HandlerComment(h, i) ==
  LET r == CASE h = "cop64" -> markup_coproc_reg64_insn(Addr(i))
             [] h = "cop32" -> markup_coproc_insn(Addr(i))
             [] h = "psr" -> markup_psr_insn(Addr(i))
             [] h = "pstate" -> markup_pstate_insn(Addr(i))
             [] h = "sys64" -> markup_aarch64_sys_insn(Addr(i))
             [] OTHER -> NoComment
  IN  IF r.set THEN r.text ELSE <<>>

\* C23: a system instruction the driver has moved past is colored and carries
\* the comment of the one handler the first matching rule names; with no
\* matching rule, or for an MSR whose operand is not an immediate, it carries
\* no comment.
C23_Dispatch ==
  \A i \in 1..Len(insns) :
    (verdict[i] = "system" /\ cur > i) =>
      /\ color[i]
      /\ cmt[i] = HandlerComment(ExpectedHandler(i), i)
      /\ ExpectedHandler(i) = "none" => cmt[i] = <<>>
      /\ (ExpectedHandler(i) = "psr" /\ ~StartsWith(i, 1, "#")) => cmt[i] = <<>>
      /\ (ExpectedHandler(i) = "pstate" /\ ~(StartsWith(i, 0, "#") /\ StartsWith(i, 1, "#")))
           => cmt[i] = <<>>
      /\ ExpectedHandler(i) \in {"cop64", "cop32", "sys64"} => Len(cmt[i]) >= 3

\* in aarch64 mode an MCRR2 has been resolved as a 64-bit coprocessor
\* transfer, and nothing else was done to it
C23_Witness ==
  /\ current_arch = "aarch64"
  /\ pc = "done"
  /\ Len(insns) = 1
  /\ insns[1].mnem = <<"M", "C", "R", "R", "2">>
  /\ color[1]
  /\ Len(cmt[1]) = 7
  /\ cmt[1][2] = ">"

\* the anchors whose handler never traces: 64-bit coprocessor transfers and
\* the immediate forms of MSR
UntracedAnchors ==
  { a \in Anchors : insns[a].enc.form = "cop64" } \cup PsrWrites \cup PstateWrites

\* C24: a 64-bit coprocessor transfer or an immediate PSR/PSTATE write starts
\* no trace; its own comment is the lookup of (cp, op1, CRm) in the 64-bit
\* catalog (the unknown comment when absent), and every other commented
\* instruction is a system instruction or, in the first run on a database,
\* was annotated for another anchor.
C24_NoTraceFromCop64OrPsr ==
  \A a \in UntracedAnchors :
    /\ ~TraceStarted(a)
    /\ \A p \in annotated : p[1] # a
    /\ ~after_first.taken =>
         \A j \in 1..Len(insns) :
           (j # a /\ cmt[j] # <<>>) =>
             \/ is_system_insn(Addr(j))
             \/ \E p \in annotated : p[2] = j /\ p[1] # a
    /\ (\A j \in 1..Len(insns) : j # a => ~is_system_insn(Addr(j)))
         => \A j \in 1..Len(insns) : j # a => cmt[j] = <<>>
    /\ (insns[a].enc.form = "cop64" /\ cur > a) =>
         /\ Len(insns[a].enc.key) = 3
         /\ IF Known(a)
            THEN AliasesIn(cmt[a]) = AliasesOfDesc(Resolved(a))
            ELSE cmt[a] = <<"[", Dir(a), "] Unknown system register.">>

\* an MCRR of TTBR0 preceded by MOV R0, #imm was commented and the scan is
\* over with the MOV left alone
C24_Witness ==
  \E a \in UntracedAnchors :
    /\ a > 1
    /\ insns[a].enc.form = "cop64"
    /\ ~insns[a].enc.read
    /\ Known(a)
    /\ insns[a - 1].mnem = MOVm
    /\ OperandIs(a - 1, 0, insns[a].enc.reg)
    /\ StartsWith(a - 1, 1, "#")
    /\ pc = "done"
    /\ cmt[a] # <<>>
    /\ cmt[a - 1] = <<>>

\* instruction j is an LSLS of the register reg by an immediate
LslsShape(j, reg) ==
  /\ Slice(insns[j].mnem, 0, 4) = <<"L", "S", "L", "S">>
  /\ OperandIs(j, 1, reg)
  /\ StartsWith(j, 2, "#")

\* C25: a forward trace that examines an LSLS of the tracked register by an
\* immediate s, whatever s, annotates it "Test bit" with the field at bit
\* 31 - s (an empty list when there is none) and the scan goes on.
C25_LslsAnyShift ==
  \A e \in examined :
    LET a == e[1]
        j == HeadAt(e[2])
    IN  (insns[a].enc.read /\ j # 0 /\ LslsShape(j, insns[a].enc.reg)) =>
          /\ ~(pc = "aborted" /\ cur = a)
          /\ Len(cmt[j]) >= 1
          /\ cmt[j][1] = "Test bit "
          /\ Listed(cmt[j]) =
               { FieldsOf(a)[k][2][2] :
                   k \in { n \in 1..Len(FieldsOf(a)) :
                             FieldsOf(a)[n][1] = 31 - insns[j].vals[3] } }

\* the bits of the value a full assignment loads, as the tracer reads it:
\* the low 32 bits of the literal for an LDR, the immediate for a MOV
AssignedBits(j) ==
  IF Slice(insns[j].mnem, 0, 3) = LDRm
  THEN { b \in insns[j].pool : b < 32 }
  ELSE { b \in 0..30 : (insns[j].vals[2] \div Pow2(b)) % 2 = 1 }

\* the short names of the fields of the table at the bits of the set
FieldAbbrevs(table, bits) ==
  { table[k][2][1] : k \in { n \in 1..Len(table) : table[n][1] \in bits } }

\* C26: a MOV-immediate or LDR-literal annotated by a backward trace lists
\* exactly the fields of the anchor's table whose bit is set in the value,
\* an empty list included; set bits without a field and literal bits from 32
\* up add nothing; and the trace stops there.
C26_ExactlyTheSetFields ==
  \A p \in annotated :
    LET a == p[1]
        j == p[2]
    IN  FullAssignment(j) =>
          /\ cmt[j][1] = "Set bits "
          /\ Listed(cmt[j]) = FieldAbbrevs(FieldsOf(a), AssignedBits(j))
          /\ Len(cmt[j]) =
               IF FieldAbbrevs(FieldsOf(a), AssignedBits(j)) = {} THEN 1
               ELSE 2 * Cardinality({ n \in 1..Len(FieldsOf(a)) :
                                        FieldsOf(a)[n][1] \in AssignedBits(j) })
          /\ \A e \in examined : e[1] = a => e[2] >= Addr(j)
          /\ ~(pc = "back" /\ cur = a)

\* an LDR of a literal with only bits from 32 up set, before a write of
\* HCR_EL2, was annotated with an empty list
C26_Witness ==
  \E p \in annotated :
    /\ Slice(insns[p[2]].mnem, 0, 3) = LDRm
    /\ insns[p[2]].pool = {32, 34}
    /\ Resolved(p[1])[1] = "HCR_EL2"
    /\ cmt[p[2]] = <<"Set bits ">>
    /\ pc = "done"

\* C27: the primary scan is independent of the traces: while a trace runs the
\* driver's position stays on the anchor, every instruction before the
\* driver's position has been classified, and once a scan in which a trace was
\* started is over - finished, or stopped in that trace - every instruction of
\* the stream has been classified and every system instruction processed.
C27_ScanIndependentOfTraces ==
  \A a \in 1..Len(insns) :
    TraceStarted(a) =>
      /\ pc \in {"back", "fwd"} => cur = a
      /\ \A i \in 1..Len(insns) : i < cur => verdict[i] # "none"
      /\ (pc = "done" \/ (pc = "aborted" /\ cur = a)) =>
           \A i \in 1..Len(insns) :
             /\ verdict[i] # "none"
             /\ is_system_insn(Addr(i)) => (verdict[i] = "system" /\ color[i])

\* C28: a trace annotates no instruction the classifier takes for a system
\* instruction; a system instruction a trace has decoded before the driver
\* reached it has no comment yet, and once its handler has run - also while
\* and after the traces of other anchors run - its comment is its handler's.
C28_TraceSparesSystemInsns ==
  /\ \A p \in annotated : ~is_system_insn(Addr(p[2]))
  /\ \A e \in examined :
       (HeadAt(e[2]) # 0 /\ is_system_insn(e[2]) /\ verdict[HeadAt(e[2])] = "none"
          /\ ~after_first.taken)
         => cmt[HeadAt(e[2])] = <<>>
  /\ \A i \in 1..Len(insns) :
       (verdict[i] = "system" /\ (cur > i \/ (cur = i /\ pc \in {"back", "fwd"}))) =>
         cmt[i] = HandlerComment(ExpectedHandler(i), i)

\* the backward trace of a register write has decoded the register access
\* right before it, which keeps the comment of its own handler, and the scan
\* is over
C28_Witness ==
  \E e \in examined :
    /\ HeadAt(e[2]) # 0
    /\ HeadAt(e[2]) # e[1]
    /\ HeadAt(e[2]) \in Anchors
    /\ Known(HeadAt(e[2]))
    /\ ~insns[e[1]].enc.read
    /\ cmt[HeadAt(e[2])] = HandlerComment(ExpectedHandler(HeadAt(e[2])), HeadAt(e[2]))
    /\ cmt[HeadAt(e[2])] # <<>>
    /\ pc = "done"

\* all instructions of the stream have the same size
UniformSizes ==
  \A i, k \in 1..Len(insns) : insns[i].size = insns[k].size

\* the comment the trace of anchor a writes on instruction j
TraceText(a, j) ==
  IF j < a
  THEN backtrack_fields(Addr(j), insns[a].enc.reg, FieldsOf(a)).text
  ELSE track_fields(Addr(j), insns[a].enc.reg, FieldsOf(a)).text

\* C29: in a stream of instructions of one size no instruction is annotated
\* by the traces of two anchors, and the comment of an annotated instruction is
\* the one text its one anchor's trace gives it, whatever was processed
\* before.
C29_OneAnnotatorPerInstruction ==
  UniformSizes =>
    \A p \in annotated :
      /\ \A q \in annotated : q[2] = p[2] => q[1] = p[1]
      /\ cmt[p[2]] = TraceText(p[1], p[2])

\* an instruction was annotated by the trace of one anchor, a second anchor
\* tracking the same register has run its own trace in the same stream, and
\* the scan is over
C29_Witness ==
  /\ UniformSizes
  /\ pc = "done"
  /\ \E p \in annotated, e \in examined :
       /\ e[1] # p[1]
       /\ insns[e[1]].enc.reg = insns[p[1]].enc.reg
       /\ insns[e[1]].enc.read = insns[p[1]].enc.read
       /\ cmt[p[2]] = TraceText(p[1], p[2])
       /\ cmt[p[2]] # <<>>

\* instruction j has a shape some tracer annotates for the register of some
\* register access of the stream
TracePattern(j) ==
  \E a \in 1..Len(insns) :
    /\ insns[a].enc.form # "none"
    /\ \/ ForwardPattern(j, insns[a].enc.reg)
       \/ /\ Slice(insns[j].mnem, 0, 3) \in {LDRm, MOVm, ORRm, BICm}
          /\ OperandIs(j, 0, insns[a].enc.reg)
          /\ FullAssignment(j) \/ PartialUpdate(j)

\* what holds of the colors and comments in every state
C30_Colors ==
  /\ \A i \in 1..Len(insns) : color[i] => is_system_insn(Addr(i))
  /\ \A p \in annotated : ~color[p[2]]
  /\ \A j \in 1..Len(insns) :
       (~is_system_insn(Addr(j)) /\ ~TracePattern(j)) => (cmt[j] = <<>> /\ ~color[j])

\* what holds of every step: the classification of an instruction that is not
\* a system instruction writes nothing, a tracer's step changes no color but
\* the anchor's once the tracer has returned, and no step changes the color
\* of an instruction other than the one the driver is at
C30_Steps ==
  /\ (pc = "scan" /\ cur <= Len(insns) /\ ~is_system_insn(Addr(cur))) =>
       (cmt' = cmt /\ color' = color)
  /\ pc \in {"back", "fwd"} =>
       /\ \A i \in 1..Len(insns) : i # cur => color'[i] = color[i]
       /\ pc' = pc => color' = color
  /\ \A i \in 1..Len(insns) :
       color'[i] # color[i] => (i = cur /\ verdict'[i] = "system")

\* C30: the color is set only on instructions classified as system
\* instructions; an instruction that is neither a system instruction nor a
\* trace pattern keeps its comment and color; a trace writes comments only,
\* and the classifier writes nothing.
C30_ColorOnlyOnSystemInsns ==
  []C30_Colors /\ [][C30_Steps]_vars

\* after a scan a MOV-immediate annotated by a trace has a comment and no
\* color, a NOP has neither, and the anchor is colored
C30_Witness ==
  /\ pc = "done"
  /\ \E p \in annotated, n \in 1..Len(insns) :
       /\ insns[n].mnem = <<"N", "O", "P">>
       /\ cmt[n] = <<>>
       /\ ~color[n]
       /\ FullAssignment(p[2])
       /\ cmt[p[2]] # <<>>
       /\ ~color[p[2]]
       /\ color[p[1]]
====
